---- MODULE Spec2Model ----
(***************************************************************************)
(* A model of the fixed-capacity sequence containers of libstatic:         *)
(* sstd::vector<T,N> (inc/static/vector.h) and sstd::deque<T,N>            *)
(* (inc/static/deque.h), together with the algorithms they are built from  *)
(* (inc/static/algorithm.h, inc/static/memory.h).                          *)
(*                                                                         *)
(* A container is a record holding the fields of the C++ object and the    *)
(* content of its aligned buffer, slot by slot.  A slot either holds a     *)
(* constructed element (a value of Vals) or is raw storage (Raw).  The     *)
(* element type is int: value-initialisation yields 0.  The field          *)
(* lifetime_error of a container is set by a placement new into a slot     *)
(* that holds an object and by a destructor call on a slot that holds none.*)
(***************************************************************************)
EXTENDS Integers, Sequences, FiniteSets, TLC

(* ------------------------------ bounds --------------------------------- *)
\* largest capacity N a container is instantiated with
MaxCap == 3
\* element values are 0..MaxVal (0 is the value-initialised int)
MaxVal == 2
\* largest count argument handed to resize / assign / insert
MaxCount == 4
\* longest source range handed to a range insert / range assign
MaxSrcLen == 2

\* largest index handed to at() besides SIZE_MAX; above every capacity
MaxPos == 4
\* largest capacity of the second container of a copy or a comparison
MaxOtherCap == 2
\* the index of the last alternative of the variant
MaxAlt == 2
\* the elements of an argument object (a source range, the second container
\* of a copy or a comparison) are 0..MaxArgVal
MaxArgVal == 1

(* ----------------------------- constants ------------------------------- *)
\* size_type is size_t: unsigned arithmetic wraps modulo 2^w.  The model
\* keeps the wrap with w = 16, the smallest width the language allows.
SizeMod == 65536
\* content of a slot of the aligned buffer that holds no constructed object
Raw == -1

Vals == 0..MaxVal
Counts == 0..MaxCount
Caps == 1..MaxCap
OtherCaps == 1..MaxOtherCap
ArgVals == 0..MaxArgVal

\* unsigned subtraction on size_type
USub(a, b) == (a - b + SizeMod) % SizeMod

\* sstd::min
min(a, b) == IF b < a THEN b ELSE a

\* the source ranges [first, last) handed to range operations
SrcRanges == UNION {[1..n -> ArgVals] : n \in 0..MaxSrcLen}

(* ------------------------- algorithm.h --------------------------------- *)
(* A range of iterators is modelled by the sequence of buffer slots its    *)
(* positions dereference to, in the order the range walks them.            *)

\* sstd::swap through iter_swap: T tmp(a); a = b; b = tmp
\* mutant: without the temporary, a = b; b = a
iter_swap_notmp(mem, a, b) == [mem EXCEPT ![a] = mem[b]]

iter_swap(mem, a, b) == [mem EXCEPT ![a] = mem[b], ![b] = mem[a]]

\* the loop of sstd::reverse; first and last are positions 1..Len(ix)+1
RECURSIVE reverse_loop(_, _, _, _)
reverse_loop(mem, ix, first, last) ==
  IF first = last THEN mem
  ELSE LET l == last - 1 IN
       IF first = l THEN mem
       ELSE reverse_loop(iter_swap(mem, ix[first], ix[l]), ix, first + 1, l)

\* sstd::reverse(first, last) over the range ix
reverse(mem, ix) == reverse_loop(mem, ix, 1, Len(ix) + 1)

\* sstd::rotate(first, n_first, last), n_first = first + k: the buffer after
\* mutant: the two halves are reversed but the whole range is not
rotate_noreverse(mem, ix, k) ==
  IF k = 0 THEN mem
  ELSE IF k = Len(ix) THEN mem
  ELSE reverse(reverse(mem, SubSeq(ix, 1, k)), SubSeq(ix, k + 1, Len(ix)))

rotate(mem, ix, k) ==
  IF k = 0 THEN mem
  ELSE IF k = Len(ix) THEN mem
  ELSE LET n  == Len(ix)
           m1 == reverse(mem, SubSeq(ix, 1, k))
           m2 == reverse(m1, SubSeq(ix, k + 1, n))
       IN reverse(m2, ix)

\* the positions of the range ix that the loop of sstd::reverse hands to
\* iter_swap, which reads and assigns both of them
RECURSIVE reverse_touched(_, _, _)
reverse_touched(ix, first, last) ==
  IF first = last THEN {}
  ELSE LET l == last - 1 IN
       IF first = l THEN {}
       ELSE {ix[first], ix[l]} \cup reverse_touched(ix, first + 1, l)

\* the positions of the range ix that sstd::rotate(first, first + k, last)
\* reads and assigns, through its three calls of reverse
rotate_touched(ix, k) ==
  IF k = 0 THEN {}
  ELSE IF k = Len(ix) THEN {}
  ELSE LET n == Len(ix) IN
       reverse_touched(SubSeq(ix, 1, k), 1, k + 1)
         \cup reverse_touched(SubSeq(ix, k + 1, n), 1, n - k + 1)
         \cup reverse_touched(ix, 1, n + 1)

\* the iterator sstd::rotate returns, as its offset from first in a range of
\* len positions: last, first, or first + distance(n_first, last)
rotate_result(len, k) ==
  IF k = 0 THEN len
  ELSE IF k = len THEN 0
  ELSE 0 + (len - k)

\* sstd::equal(first1, last1, first2): a is [first1, last1), b the range
\* that starts at first2 (at least as long as a)
RECURSIVE equal(_, _)
equal(a, b) ==
  IF a = <<>> THEN TRUE
  ELSE IF ~(a[1] = b[1]) THEN FALSE
  ELSE equal(Tail(a), Tail(b))

\* sstd::lexicographical_compare(first1, last1, first2, last2)
\* mutant: when one range runs out the result is false
RECURSIVE lexicographical_compare_noprefix(_, _)
lexicographical_compare_noprefix(a, b) ==
  IF a # <<>> /\ b # <<>>
  THEN IF a[1] < b[1] THEN TRUE
       ELSE IF b[1] < a[1] THEN FALSE
       ELSE lexicographical_compare_noprefix(Tail(a), Tail(b))
  ELSE FALSE

RECURSIVE lexicographical_compare(_, _)
lexicographical_compare(a, b) ==
  IF a # <<>> /\ b # <<>>
  THEN IF a[1] < b[1] THEN TRUE
       ELSE IF b[1] < a[1] THEN FALSE
       ELSE lexicographical_compare(Tail(a), Tail(b))
  ELSE a = <<>> /\ b # <<>>

\* sstd::fill_n(first, len, val) over the range ix starting at its position 1
RECURSIVE fill_n(_, _, _, _)
fill_n(mem, ix, len, val) ==
  IF len = 0 THEN mem
  ELSE fill_n([mem EXCEPT ![ix[1]] = val], Tail(ix), len - 1, val)

\* sstd::fill_n(first, count, value) when value is a reference to the slot
\* ref of the same storage: each assignment reads the slot again
RECURSIVE fill_n_ref(_, _, _, _)
fill_n_ref(mem, ix, len, ref) ==
  IF len = 0 THEN mem
  ELSE fill_n_ref([mem EXCEPT ![ix[1]] = mem[ref]], Tail(ix), len - 1, ref)

\* sstd::copy_n(first, len, dest): src is the source range, ix the destination
RECURSIVE copy_n(_, _, _, _)
copy_n(mem, src, len, ix) ==
  IF len = 0 THEN mem
  ELSE copy_n([mem EXCEPT ![ix[1]] = src[1]], Tail(src), len - 1, Tail(ix))

(* ---------------------------- iterator.h -------------------------------- *)
(* A position of a container is its offset from begin(); a                 *)
(* reverse_iterator is the record of its member it_.                       *)

\* reverse_iterator(it)
reverse_iterator(it) == [it_ |-> it]

\* reverse_iterator::base()
reverse_base(r) == r.it_

\* reverse_iterator::operator*(): Iterator tmp(it_); return *--tmp; the
\* position dereferenced
\* mutant: it_ itself is dereferenced
reverse_deref_current(r) == r.it_

reverse_deref(r) == r.it_ - 1

\* reverse_iterator::operator++(): --it_
reverse_preinc(r) == [r EXCEPT !.it_ = @ - 1]

\* reverse_iterator::operator--(): ++it_
reverse_predec(r) == [r EXCEPT !.it_ = @ + 1]

\* reverse_iterator::operator+(n): reverse_iterator(it_ - n)
reverse_plus(r, n) == reverse_iterator(r.it_ - n)

\* reverse_iterator::operator-(n): reverse_iterator(it_ + n)
reverse_minus(r, n) == reverse_iterator(r.it_ + n)

\* what an operator hands to its return statement: an expression of type
\* reverse_iterator, Iterator or reference (to an element), at position pos
\* (for a reverse_iterator, the position of its base)
Expr(type, pos) == [type |-> type, pos |-> pos]

\* reverse_iterator::operator++(int): reverse_iterator tmp(*this); --it_;
\* return *tmp;  r is the iterator after the call, result the operand of
\* return
reverse_postinc(r) ==
  [r |-> [r EXCEPT !.it_ = @ - 1],
   result |-> Expr("reference", reverse_deref(r))]

\* reverse_iterator::operator--(int): reverse_iterator tmp(*this); ++it_;
\* return *tmp;
reverse_postdec(r) ==
  [r |-> [r EXCEPT !.it_ = @ + 1],
   result |-> Expr("reference", reverse_deref(r))]

\* reverse_iterator::operator+=(n): return it_ -= n;
reverse_add_assign(r, n) ==
  [r |-> [r EXCEPT !.it_ = @ - n], result |-> Expr("Iterator", r.it_ - n)]

\* reverse_iterator::operator-=(n): return it_ += n;
reverse_sub_assign(r, n) ==
  [r |-> [r EXCEPT !.it_ = @ + n], result |-> Expr("Iterator", r.it_ + n)]

\* operator==(reverse_iterator, reverse_iterator)
reverse_eq(lhs, rhs) == reverse_base(lhs) = reverse_base(rhs)

\* sstd::distance(first, last) over positions
RECURSIVE distance(_, _)
distance(first, last) ==
  IF first # last THEN 1 + distance(first + 1, last) ELSE 0

\* sstd::distance(first, last) over reverse iterators
RECURSIVE reverse_distance(_, _)
reverse_distance(first, last) ==
  IF ~reverse_eq(first, last)
  THEN 1 + reverse_distance(reverse_preinc(first), last)
  ELSE 0

\* for (; first != last; ++first) visit(*first) over reverse iterators: the
\* positions dereferenced, in order
RECURSIVE reverse_walk(_, _)
reverse_walk(first, last) ==
  IF ~reverse_eq(first, last)
  THEN <<reverse_deref(first)>> \o reverse_walk(reverse_preinc(first), last)
  ELSE <<>>

(* --------------------------- memory.h ---------------------------------- *)
\* sstd::destroy(first, last) over the slots lo..hi-1 of a contiguous buffer
destroy(mem, lo, hi) ==
  [i \in DOMAIN mem |-> IF i >= lo /\ i < hi THEN Raw ELSE mem[i]]

\* sstd::uninitialized_fill(first, last, value) over the slots lo..hi-1;
\* uninitialized_value_construct is the same with value = T() = 0
uninitialized_fill(mem, lo, hi, value) ==
  [i \in DOMAIN mem |-> IF i >= lo /\ i < hi THEN value ELSE mem[i]]

\* sstd::uninitialized_copy_n(first, count, d_first): src is the source
\* range, ix the slots of the destination range
RECURSIVE uninitialized_copy_n(_, _, _, _)
uninitialized_copy_n(mem, src, count, ix) ==
  IF count = 0 THEN mem
  ELSE uninitialized_copy_n([mem EXCEPT ![ix[1]] = src[1]], Tail(src),
                            count - 1, Tail(ix))

\* a placement new over the slots lo..hi-1 meets a slot that holds an object
constructs_live(mem, lo, hi) == \E i \in lo..(hi - 1) : mem[i] # Raw

\* sstd::destroy over the slots lo..hi-1 meets a slot that holds no object
destroys_raw(mem, lo, hi) == \E i \in lo..(hi - 1) : mem[i] = Raw

\* sstd::destroy(first, last) over the iterator range whose slots are ix, one
\* destroy_at per position in order; st is [mem, err], err set when a
\* position holds no object (any more)
RECURSIVE destroy_each(_, _)
destroy_each(st, ix) ==
  IF ix = <<>> THEN st
  ELSE destroy_each([mem |-> [st.mem EXCEPT ![Head(ix)] = Raw],
                     err |-> st.err \/ st.mem[Head(ix)] = Raw], Tail(ix))

\* the size_type arguments of at(): small indices and SIZE_MAX
Positions == 0..MaxPos \cup {SizeMod - 1}

(* ---------------------------- vector.h --------------------------------- *)
\* vector<T,N>::vector(): size 0 over a raw buffer of N slots
vector_new(n) ==
  [size_ |-> 0, capacity_ |-> n, data_ |-> [i \in 0..(n - 1) |-> Raw],
   lifetime_error |-> FALSE]

\* the forward range [begin() + from, end()) of a vector
vector_range(v, from) == [i \in 1..(v.size_ - from) |-> from + i - 1]

\* the reversed range [rbegin(), reverse_iterator(begin() + d))
\* mutant: the range is walked forward, from begin() + d to end()
vector_rrange_forward(v, d) == [i \in 1..(v.size_ - d) |-> d + i - 1]

vector_rrange(v, d) == [i \in 1..(v.size_ - d) |-> v.size_ - i]

\* the logical content of a vector, begin() to end()
vector_seq(v) == [i \in 1..v.size_ |-> v.data_[i - 1]]

\* vector<T>::resize(count, value); resize(count) is resize(count, T())
\* mutant: the grown size is not clamped to the capacity
vector_resize_noclamp(v, count, value) ==
  IF count <= v.size_
  THEN [v EXCEPT !.data_ = destroy(v.data_, count, v.size_), !.size_ = count]
  ELSE [v EXCEPT !.data_ = uninitialized_fill(v.data_, v.size_,
                                               min(count, v.capacity_), value),
                 !.size_ = count]

\* mutant: growing constructs from begin() instead of end()
vector_resize_frombegin(v, count, value) ==
  IF count <= v.size_
  THEN [v EXCEPT !.data_ = destroy(v.data_, count, v.size_), !.size_ = count]
  ELSE LET c == min(count, v.capacity_) IN
       [v EXCEPT !.data_ = uninitialized_fill(v.data_, 0, c, value),
                 !.size_ = c]

\* mutant: shrinking only lowers size_, the elements cut off stay alive
vector_resize_nodestroy(v, count, value) ==
  IF count <= v.size_
  THEN [v EXCEPT !.size_ = count]
  ELSE LET c == min(count, v.capacity_) IN
       [v EXCEPT !.data_ = uninitialized_fill(v.data_, v.size_, c, value),
                 !.size_ = c]

vector_resize(v, count, value) ==
  IF count <= v.size_
  THEN [v EXCEPT !.lifetime_error = @ \/ destroys_raw(v.data_, count, v.size_),
                 !.data_ = destroy(v.data_, count, v.size_), !.size_ = count]
  ELSE LET c == min(count, v.capacity_) IN
       [v EXCEPT !.lifetime_error = @ \/ constructs_live(v.data_, v.size_, c),
                 !.data_ = uninitialized_fill(v.data_, v.size_, c, value),
                 !.size_ = c]

\* vector<T>::push_back(value)
\* mutant: a full vector has its last element overwritten
vector_push_back_overwrite(v, value) ==
  IF v.size_ < v.capacity_
  THEN [v EXCEPT !.data_ = uninitialized_fill(v.data_, v.size_, v.size_ + 1, value),
                 !.size_ = v.size_ + 1]
  ELSE [v EXCEPT !.data_ = uninitialized_fill(v.data_, v.size_ - 1, v.size_, value)]

vector_push_back(v, value) ==
  IF v.size_ < v.capacity_
  THEN [v EXCEPT !.lifetime_error = @ \/ constructs_live(v.data_, v.size_, v.size_ + 1),
                 !.data_ = uninitialized_fill(v.data_, v.size_, v.size_ + 1, value),
                 !.size_ = v.size_ + 1]
  ELSE v

\* vector<T>::pop_back(): resize(size_ - 1) in size_type arithmetic
vector_pop_back(v) == vector_resize(v, USub(v.size_, 1), 0)

\* vector<T>::clear()
vector_clear(v) == vector_resize(v, 0, 0)

\* vector<T>::assign(count, val)
vector_assign(v, count, val) ==
  LET r == vector_resize(v, count, 0) IN
  [r EXCEPT !.data_ = fill_n(r.data_, vector_range(r, 0), r.size_, val)]

\* vector<T>::assign(first, last) for iterators (assign_range_dispatch)
vector_assign_range(v, src) ==
  LET r == vector_resize(v, Len(src), 0) IN
  [r EXCEPT !.data_ = copy_n(r.data_, src, r.size_, vector_range(r, 0))]

\* vector<T>::insert(pos, count, val), pos = begin() + d
vector_insert_n(v, d, count, val) ==
  IF v.size_ < v.capacity_
  THEN LET c  == min(count, v.capacity_ - v.size_)
           r  == vector_resize(v, v.size_ + c, 0)
           m  == rotate(r.data_, vector_rrange(r, d), c)
       IN [r EXCEPT !.data_ = fill_n(m, vector_range(r, d), c, val)]
  ELSE v

\* vector<T>::insert(pos, val) and insert(pos, count, val), pos = begin() + d,
\* when val is a reference to the element begin()[k] of the vector itself:
\* val is read after resize and rotate
vector_insert_ref(v, d, k) ==
  IF v.size_ < v.capacity_
  THEN LET r == vector_resize(v, v.size_ + 1, 0)
           m == rotate(r.data_, vector_rrange(r, d), 1)
       IN [r EXCEPT !.data_ = [m EXCEPT ![d] = m[k]]]
  ELSE v

vector_insert_n_ref(v, d, count, k) ==
  IF v.size_ < v.capacity_
  THEN LET c  == min(count, v.capacity_ - v.size_)
           r  == vector_resize(v, v.size_ + c, 0)
           m  == rotate(r.data_, vector_rrange(r, d), c)
       IN [r EXCEPT !.data_ = fill_n_ref(m, vector_range(r, d), c, k)]
  ELSE v

\* vector<T>::insert(pos, val), pos = begin() + d
\* mutant: the assignment through pos is made on a full vector too
vector_insert_assignfull(v, d, val) ==
  IF v.size_ < v.capacity_
  THEN LET r == vector_resize(v, v.size_ + 1, 0)
           m == rotate(r.data_, vector_rrange(r, d), 1)
       IN [r EXCEPT !.data_ = [m EXCEPT ![d] = val]]
  ELSE IF d < v.size_ THEN [v EXCEPT !.data_ = [v.data_ EXCEPT ![d] = val]] ELSE v

vector_insert(v, d, val) ==
  IF v.size_ < v.capacity_
  THEN LET r == vector_resize(v, v.size_ + 1, 0)
           m == rotate(r.data_, vector_rrange(r, d), 1)
       IN [r EXCEPT !.data_ = [m EXCEPT ![d] = val]]
  ELSE v

\* vector<T>::insert(pos, first, last) for iterators (insert_range_dispatch)
\* mutant: the new slots are not rotated to pos before the copy
vector_insert_range_norotate(v, d, src) ==
  IF v.size_ < v.capacity_
  THEN LET c == min(Len(src), v.capacity_ - v.size_)
           r == vector_resize(v, v.size_ + c, 0)
       IN [r EXCEPT !.data_ = copy_n(r.data_, src, c, vector_range(r, d))]
  ELSE v

vector_insert_range(v, d, src) ==
  IF v.size_ < v.capacity_
  THEN LET c == min(Len(src), v.capacity_ - v.size_)
           r == vector_resize(v, v.size_ + c, 0)
           m == rotate(r.data_, vector_rrange(r, d), c)
       IN [r EXCEPT !.data_ = copy_n(m, src, c, vector_range(r, d))]
  ELSE v

\* vector<T>::erase(first, last), first = begin() + i, last = begin() + j
vector_erase_range(v, i, j) ==
  LET m == rotate(v.data_, vector_range(v, i), j - i)
  IN vector_resize([v EXCEPT !.data_ = m], USub(v.size_, j - i), 0)

\* vector<T>::erase(pos), pos = begin() + d
\* mutant: the erased element is not rotated to the end before the shrink
vector_erase_norotate(v, d) ==
  vector_resize(v, USub(v.size_, 1), 0)

vector_erase(v, d) ==
  LET m == rotate(v.data_, vector_range(v, d), 1)
  IN vector_resize([v EXCEPT !.data_ = m], USub(v.size_, 1), 0)

\* the caller's v.erase(v.insert(pos, val)), pos = begin() + d: erase is
\* handed the iterator insert returned, which is pos
vector_erase_insert(v, d, val) == vector_erase(vector_insert(v, d, val), d)

\* the elements that vector<T>::insert reads or assigns, as offsets from
\* begin(), and the vector at that time (after its resize): the rotation
\* and the count assignments from pos = begin() + d on; count is 1 for
\* insert(pos, val), distance(first, last) for insert(pos, first, last)
vector_insert_touched(v, d, count) ==
  IF v.size_ < v.capacity_
  THEN LET c == min(count, v.capacity_ - v.size_)
           r == vector_resize(v, v.size_ + c, 0)
       IN [obj |-> r,
           pos |-> rotate_touched(vector_rrange(r, d), c)
                     \cup {d + i : i \in 0..(c - 1)}]
  ELSE [obj |-> v, pos |-> {}]

\* the elements that vector<T>::erase(first, last) reads or assigns, first =
\* begin() + i, last = begin() + j (j = i + 1 for erase(pos)): the rotation,
\* made before the resize
vector_erase_touched(v, i, j) ==
  [obj |-> v, pos |-> rotate_touched(vector_range(v, i), j - i)]

\* the elements that vector<T>::assign assigns, after its resize to count
vector_assign_touched(v, count) ==
  LET r == vector_resize(v, count, 0) IN
  [obj |-> r, pos |-> {i - 1 : i \in 1..r.size_}]

\* vector<T,N>::vector(count): min(count, N) value-initialised elements
vector_ctor_count(n, count) ==
  LET v == [vector_new(n) EXCEPT !.size_ = min(count, n)] IN
  [v EXCEPT !.data_ = uninitialized_fill(v.data_, 0, v.size_, 0)]

\* vector<T,N>::vector(count, val), and construct_range_dispatch(count, val,
\* true_type) which has the same body
vector_ctor_fill(n, count, val) ==
  LET v == [vector_new(n) EXCEPT !.size_ = min(count, n)] IN
  [v EXCEPT !.data_ = uninitialized_fill(v.data_, 0, v.size_, val)]

\* vector<T,N>::vector(first, last) for iterators:
\* construct_range_dispatch(first, last, false_type)
\* mutant: a source longer than N gives its last N elements
vector_construct_range_lastn(n, src) ==
  LET v == [vector_new(n) EXCEPT !.size_ = min(Len(src), n)] IN
  [v EXCEPT !.data_ = uninitialized_copy_n(v.data_,
                        SubSeq(src, Len(src) - v.size_ + 1, Len(src)),
                        v.size_, vector_range(v, 0))]

vector_construct_range(n, src) ==
  LET v == [vector_new(n) EXCEPT !.size_ = min(Len(src), n)] IN
  [v EXCEPT !.data_ = uninitialized_copy_n(v.data_, src, v.size_,
                                           vector_range(v, 0))]

\* the slots of [begin() + lo, begin() + hi)
vector_subrange(v, lo, hi) == [i \in 1..(hi - lo) |-> lo + i - 1]

\* sstd::rotate(v.begin() + lo, v.begin() + lo + k, v.begin() + hi)
vector_rotate(v, lo, k, hi) ==
  [v EXCEPT !.data_ = rotate(v.data_, vector_subrange(v, lo, hi), k)]

\* rotate at offset k, then rotate the same range at the offset n - k
vector_rotate_rotate(v, lo, k, hi) ==
  vector_rotate(vector_rotate(v, lo, k, hi), lo, (hi - lo) - k, hi)

\* the states of a vector<int,M> object: any size, the elements in the
\* first size_ slots
VectorStates(M) ==
  {v \in {[size_ |-> s, capacity_ |-> M, lifetime_error |-> FALSE, data_ |-> g]
          : s \in 0..M, g \in [0..(M - 1) -> Vals \cup {Raw}]} :
     \A i \in 0..(M - 1) : v.data_[i] # Raw <=> i < v.size_}

\* the second vector of a comparison: a vector<int,M> in any state
OtherVectors ==
  {v \in UNION {VectorStates(M) : M \in OtherCaps} :
     \A i \in 0..(v.capacity_ - 1) : v.data_[i] \in ArgVals \cup {Raw}}

\* operator== and operator< on vectors; the other four are written in
\* terms of these two
vector_eq(lhs, rhs) ==
  lhs.size_ = rhs.size_ /\ equal(vector_seq(lhs), vector_seq(rhs))
vector_lt(lhs, rhs) == lexicographical_compare(vector_seq(lhs), vector_seq(rhs))

\* the six relational operators applied to (lhs, rhs)
vector_relops(lhs, rhs) ==
  [eq |-> vector_eq(lhs, rhs), ne |-> ~vector_eq(lhs, rhs),
   lt |-> vector_lt(lhs, rhs), gt |-> vector_lt(rhs, lhs),
   le |-> ~vector_lt(rhs, lhs), ge |-> ~vector_lt(lhs, rhs)]

\* vector<T>::front(): the slot of data_[0]
vector_front(v) == 0

\* vector<T>::back(): the slot of data_[size_ - 1]
vector_back(v) == USub(v.size_, 1)

\* vector<T>::operator[](pos): the slot of data_[pos]
vector_subscript(v, pos) == pos

\* vector<T>::at(pos): the slot of data_[pos % capacity_]
\* mutant: the index wraps at size_ + 1 instead of capacity_
vector_at_modsize(v, pos) == pos % (v.size_ + 1)

vector_at(v, pos) == pos % v.capacity_

\* vector<T,N>::~vector(): destroy(base::begin(), base::end())
vector_dtor(v) ==
  LET r == destroy_each([mem |-> v.data_, err |-> v.lifetime_error],
                        vector_range(v, 0)) IN
  [v EXCEPT !.data_ = r.mem, !.lifetime_error = r.err]

(* ----------------------------- deque.h --------------------------------- *)
\* deque<T,N>::deque(): size 0, head 0, tail N - 1 over a raw buffer
deque_new(n) ==
  [size_ |-> 0, head_ |-> 0, tail_ |-> n - 1, capacity_ |-> n,
   data_ |-> [i \in 0..(n - 1) |-> Raw], lifetime_error |-> FALSE]

\* deque<T>::index_at(pos), in size_type arithmetic
index_at(d, pos) ==
  LET rollover == USub(d.capacity_, d.head_) IN
  IF pos < rollover THEN (d.head_ + pos) % SizeMod ELSE USub(pos, rollover)

\* the subtractions index_at(pos) makes, as pairs <<minuend, subtrahend>>
index_at_subtractions(d, pos) ==
  LET rollover == USub(d.capacity_, d.head_) IN
  {<<d.capacity_, d.head_>>}
    \cup (IF pos < rollover THEN {} ELSE {<<pos, rollover>>})

\* deque<T>::increment_index(index)
\* mutant: the index wraps one slot early
increment_index_early(d, index) ==
  LET i == (index + 1) % SizeMod IN
  IF i < USub(d.capacity_, 1) THEN i ELSE 0

increment_index(d, index) ==
  LET i == (index + 1) % SizeMod IN IF i < d.capacity_ THEN i ELSE 0

\* deque<T>::decrement_index(index)
\* mutant: index 0 is not wrapped to capacity_ - 1
decrement_index_nowrap(d, index) ==
  IF index # 0 THEN index - 1 ELSE 0

decrement_index(d, index) ==
  IF index # 0 THEN index - 1 ELSE USub(d.capacity_, 1)

\* the forward range [begin() + from, end()) of a deque, through operator[]
deque_range(d, from) ==
  [i \in 1..(d.size_ - from) |-> index_at(d, from + i - 1)]

\* the reversed range [rbegin(), reverse_iterator(begin() + dd))
\* mutant: the positions are taken as slots, without head_
deque_rrange_physical(d, dd) ==
  [i \in 1..(d.size_ - dd) |-> d.size_ - i]

deque_rrange(d, dd) ==
  [i \in 1..(d.size_ - dd) |-> index_at(d, d.size_ - i)]

\* the logical content of a deque, begin() to end()
deque_seq(d) == [i \in 1..d.size_ |-> d.data_[index_at(d, i - 1)]]

\* deque<T>::push_back(value)
\* mutant: the element is constructed before the tail is advanced
deque_push_back_oldtail(d, value) ==
  IF d.size_ < d.capacity_
  THEN [d EXCEPT !.size_ = d.size_ + 1, !.tail_ = increment_index(d, d.tail_),
                 !.data_ = [d.data_ EXCEPT ![d.tail_] = value]]
  ELSE d

deque_push_back(d, value) ==
  IF d.size_ < d.capacity_
  THEN LET t == increment_index(d, d.tail_) IN
       [d EXCEPT !.size_ = d.size_ + 1, !.tail_ = t,
                 !.lifetime_error = @ \/ d.data_[t] # Raw,
                 !.data_ = [d.data_ EXCEPT ![t] = value]]
  ELSE d

\* deque<T>::pop_back()
deque_pop_back(d) ==
  IF d.size_ # 0
  THEN [d EXCEPT !.lifetime_error = @ \/ d.data_[d.tail_] = Raw,
                 !.data_ = [d.data_ EXCEPT ![d.tail_] = Raw],
                 !.tail_ = decrement_index(d, d.tail_),
                 !.size_ = d.size_ - 1]
  ELSE d

\* deque<T>::push_front(value)
\* mutant: the element is constructed before the head is moved back
deque_push_front_oldhead(d, value) ==
  IF d.size_ < d.capacity_
  THEN [d EXCEPT !.size_ = d.size_ + 1, !.head_ = decrement_index(d, d.head_),
                 !.data_ = [d.data_ EXCEPT ![d.head_] = value]]
  ELSE d

deque_push_front(d, value) ==
  IF d.size_ < d.capacity_
  THEN LET h == decrement_index(d, d.head_) IN
       [d EXCEPT !.size_ = d.size_ + 1, !.head_ = h,
                 !.lifetime_error = @ \/ d.data_[h] # Raw,
                 !.data_ = [d.data_ EXCEPT ![h] = value]]
  ELSE d

\* deque<T>::pop_front()
\* mutant: only the size decrement is guarded by   if (size_)
deque_pop_front_unguarded(d) ==
  [d EXCEPT !.data_ = [d.data_ EXCEPT ![d.head_] = Raw],
            !.head_ = increment_index(d, d.head_),
            !.size_ = IF d.size_ # 0 THEN d.size_ - 1 ELSE 0]

deque_pop_front(d) ==
  IF d.size_ # 0
  THEN [d EXCEPT !.lifetime_error = @ \/ d.data_[d.head_] = Raw,
                 !.data_ = [d.data_ EXCEPT ![d.head_] = Raw],
                 !.head_ = increment_index(d, d.head_),
                 !.size_ = d.size_ - 1]
  ELSE d

\* deque<T>::resize(count, value) run to completion: the two while loops.
\* Used where the caller has clamped count to the capacity; the public
\* resize and assign(count, val) are stepped through by the actions below.
RECURSIVE deque_resize(_, _, _)
deque_resize(d, count, value) ==
  IF count < d.size_ THEN deque_resize(deque_pop_back(d), count, value)
  ELSE IF count > d.size_ THEN deque_resize(deque_push_back(d, value), count, value)
  ELSE d

\* deque<T>::clear()
deque_clear(d) == deque_resize(d, 0, 0)

\* deque<T>::assign(first, last) for iterators (assign_range_dispatch)
deque_assign_range(d, src) ==
  LET r == deque_resize(d, min(Len(src), d.capacity_), 0) IN
  [r EXCEPT !.data_ = copy_n(r.data_, src, r.size_, deque_range(r, 0))]

\* deque<T>::insert(pos, val), pos = begin() + dd
\* mutant: the new slot is not rotated to pos before the assignment
deque_insert_norotate(d, dd, val) ==
  IF d.size_ < d.capacity_
  THEN LET r == deque_resize(d, d.size_ + 1, 0)
       IN [r EXCEPT !.data_ = [r.data_ EXCEPT ![index_at(r, dd)] = val]]
  ELSE d

deque_insert(d, dd, val) ==
  IF d.size_ < d.capacity_
  THEN LET r == deque_resize(d, d.size_ + 1, 0)
           m == rotate(r.data_, deque_rrange(r, dd), 1)
       IN [r EXCEPT !.data_ = [m EXCEPT ![index_at(r, dd)] = val]]
  ELSE d

\* deque<T>::insert(pos, val) and insert(pos, count, val), pos = begin() + dd,
\* when val is a reference to the element begin()[k] of the deque itself,
\* which is in slot index_at(d, k): val is read after resize and rotate
deque_insert_ref(d, dd, k) ==
  IF d.size_ < d.capacity_
  THEN LET r == deque_resize(d, d.size_ + 1, 0)
           m == rotate(r.data_, deque_rrange(r, dd), 1)
       IN [r EXCEPT !.data_ = [m EXCEPT ![index_at(r, dd)] = m[index_at(d, k)]]]
  ELSE d

deque_insert_n_ref(d, dd, count, k) ==
  IF d.size_ < d.capacity_
  THEN LET c == min(count, d.capacity_ - d.size_)
           r == deque_resize(d, d.size_ + c, 0)
           m == rotate(r.data_, deque_rrange(r, dd), c)
       IN [r EXCEPT !.data_ = fill_n_ref(m, deque_range(r, dd), c,
                                         index_at(d, k))]
  ELSE d

\* deque<T>::insert(pos, count, val), pos = begin() + dd
\* mutant: the block is rotated by one slot, as in the single insert
deque_insert_n_rot1(d, dd, count, val) ==
  IF d.size_ < d.capacity_
  THEN LET c == min(count, d.capacity_ - d.size_)
           r == deque_resize(d, d.size_ + c, 0)
           m == rotate(r.data_, deque_rrange(r, dd), min(c, 1))
       IN [r EXCEPT !.data_ = fill_n(m, deque_range(r, dd), c, val)]
  ELSE d

deque_insert_n(d, dd, count, val) ==
  IF d.size_ < d.capacity_
  THEN LET c == min(count, d.capacity_ - d.size_)
           r == deque_resize(d, d.size_ + c, 0)
           m == rotate(r.data_, deque_rrange(r, dd), c)
       IN [r EXCEPT !.data_ = fill_n(m, deque_range(r, dd), c, val)]
  ELSE d

\* deque<T>::insert(pos, first, last) for iterators (insert_range_dispatch)
deque_insert_range(d, dd, src) ==
  IF d.size_ < d.capacity_
  THEN LET c == min(Len(src), d.capacity_ - d.size_)
           r == deque_resize(d, d.size_ + c, 0)
           m == rotate(r.data_, deque_rrange(r, dd), c)
       IN [r EXCEPT !.data_ = copy_n(m, src, c, deque_range(r, dd))]
  ELSE d

\* deque<T>::erase(pos), pos = begin() + dd
\* mutant: the erased element is not rotated to the end before the shrink
deque_erase_norotate(d, dd) ==
  deque_resize(d, USub(d.size_, 1), 0)

deque_erase(d, dd) ==
  LET m == rotate(d.data_, deque_range(d, dd), 1)
  IN deque_resize([d EXCEPT !.data_ = m], USub(d.size_, 1), 0)

\* deque<T>::erase(first, last), first = begin() + i, last = begin() + j
\* mutant: the rotation starts at begin() instead of first
deque_erase_range_frombegin(d, i, j) ==
  LET m == rotate(d.data_, deque_range(d, 0), j - i)
  IN deque_resize([d EXCEPT !.data_ = m], USub(d.size_, j - i), 0)

deque_erase_range(d, i, j) ==
  LET m == rotate(d.data_, deque_range(d, i), j - i)
  IN deque_resize([d EXCEPT !.data_ = m], USub(d.size_, j - i), 0)

\* the caller's d.erase(d.insert(pos, val)), pos = begin() + dd: erase is
\* handed the iterator insert returned, which is at pos
deque_erase_insert(d, dd, val) == deque_erase(deque_insert(d, dd, val), dd)

\* the offsets from begin() of the positions of [begin() + from, end())
deque_positions(d, from) == [i \in 1..(d.size_ - from) |-> from + i - 1]

\* the offsets from begin() of the positions that the reversed range
\* [rbegin(), reverse_iterator(begin() + dd)) dereferences: operator* of a
\* reverse iterator dereferences the position before its base
\* mutant: operator* dereferences the base itself
deque_rpositions_base(d, dd) ==
  [i \in 1..(d.size_ - dd) |-> d.size_ - i + 1]

deque_rpositions(d, dd) == [i \in 1..(d.size_ - dd) |-> d.size_ - i]

\* the elements that deque<T>::insert reads or assigns, as offsets from
\* begin(), and the deque at that time (after its resize); count as for
\* the vector
deque_insert_touched(d, dd, count) ==
  IF d.size_ < d.capacity_
  THEN LET c == min(count, d.capacity_ - d.size_)
           r == deque_resize(d, d.size_ + c, 0)
       IN [obj |-> r,
           pos |-> rotate_touched(deque_rpositions(r, dd), c)
                     \cup {dd + i : i \in 0..(c - 1)}]
  ELSE [obj |-> d, pos |-> {}]

\* the elements that deque<T>::erase(first, last) reads or assigns
deque_erase_touched(d, i, j) ==
  [obj |-> d, pos |-> rotate_touched(deque_positions(d, i), j - i)]

\* the elements that deque<T>::assign assigns: all of them, after resize
\* has returned and left the deque r
deque_assign_touched(r) ==
  [obj |-> r, pos |-> {i - 1 : i \in 1..r.size_}]

\* the states of a deque<int,M> object: any head, any size, the elements in
\* the size_ slots from head_ on, tail_ on the last of them
DequeStates(M) ==
  {d \in {[size_ |-> s, head_ |-> h, tail_ |-> (h + s + M - 1) % M,
           capacity_ |-> M, lifetime_error |-> FALSE, data_ |-> g]
          : s \in 0..M, h \in 0..(M - 1), g \in [0..(M - 1) -> Vals \cup {Raw}]} :
     \A i \in 0..(M - 1) : d.data_[i] # Raw <=> (i - d.head_ + M) % M < d.size_}

\* the second deque of a copy or comparison: a deque<int,M> in any state
OtherDeques ==
  {d \in UNION {DequeStates(M) : M \in OtherCaps} :
     \A i \in 0..(d.capacity_ - 1) : d.data_[i] \in ArgVals \cup {Raw}}

\* deque<T,N>::deque(const deque& other): other is a deque<T,N> too
\* mutant: the elements are read from the first slots of the other buffer
deque_ctor_copy_physical(n, other) ==
  LET d == [deque_new(n) EXCEPT !.size_ = other.size_, !.head_ = other.head_,
                                !.tail_ = other.tail_] IN
  [d EXCEPT !.data_ = uninitialized_copy_n(d.data_,
                        [i \in 1..d.size_ |-> other.data_[i - 1]],
                        d.size_, deque_range(d, 0))]

deque_ctor_copy(n, other) ==
  LET d == [deque_new(n) EXCEPT !.size_ = other.size_, !.head_ = other.head_,
                                !.tail_ = other.tail_] IN
  [d EXCEPT !.data_ = uninitialized_copy_n(d.data_, deque_seq(other),
                                           d.size_, deque_range(d, 0))]

\* deque<T,N>::deque(const deque<T2>& other): other of any capacity
deque_ctor_convert(n, other) ==
  LET s == min(other.size_, n)
      d == [deque_new(n) EXCEPT !.size_ = s,
                                !.tail_ = IF s # 0 THEN s - 1 ELSE @] IN
  [d EXCEPT !.data_ = uninitialized_copy_n(d.data_, deque_seq(other), s,
                                           deque_range(d, 0))]

\* deque<T,N>::operator=(rhs): base::assign(rhs.begin(), rhs.end())
deque_copy_assign(d, rhs) == deque_assign_range(d, deque_seq(rhs))

\* deque<T,N>::deque(count): min(count, N) value-initialised elements
deque_ctor_count(n, count) ==
  LET s == min(count, n)
      d == [deque_new(n) EXCEPT !.size_ = s,
                                !.tail_ = IF s # 0 THEN s - 1 ELSE @] IN
  [d EXCEPT !.data_ = uninitialized_copy_n(d.data_, [i \in 1..s |-> 0], s,
                                           deque_range(d, 0))]

\* deque<T,N>::deque(count, val), and construct_range_dispatch(count, val,
\* true_type) which has the same body
\* mutant: tail_ keeps the value the base constructor gave it
deque_ctor_fill_notail(n, count, val) ==
  LET s == min(count, n)
      d == [deque_new(n) EXCEPT !.size_ = s] IN
  [d EXCEPT !.data_ = uninitialized_copy_n(d.data_, [i \in 1..s |-> val], s,
                                           deque_range(d, 0))]

deque_ctor_fill(n, count, val) ==
  LET s == min(count, n)
      d == [deque_new(n) EXCEPT !.size_ = s,
                                !.tail_ = IF s # 0 THEN s - 1 ELSE @] IN
  [d EXCEPT !.data_ = uninitialized_copy_n(d.data_, [i \in 1..s |-> val], s,
                                           deque_range(d, 0))]

\* deque<T,N>::deque(first, last) for iterators:
\* construct_range_dispatch(first, last, false_type)
deque_construct_range(n, src) ==
  LET s == min(Len(src), n)
      d == [deque_new(n) EXCEPT !.size_ = s,
                                !.tail_ = IF s # 0 THEN s - 1 ELSE @] IN
  [d EXCEPT !.data_ = uninitialized_copy_n(d.data_, src, s, deque_range(d, 0))]

\* operator== and operator< on deques; the other four are written in terms
\* of these two
\* mutant: the elements are compared slot by slot from the start of the
\* buffers
deque_eq_physical(lhs, rhs) ==
  lhs.size_ = rhs.size_ /\ equal([i \in 1..lhs.size_ |-> lhs.data_[i - 1]],
                                 [i \in 1..rhs.size_ |-> rhs.data_[i - 1]])

deque_eq(lhs, rhs) ==
  lhs.size_ = rhs.size_ /\ equal(deque_seq(lhs), deque_seq(rhs))

deque_lt(lhs, rhs) == lexicographical_compare(deque_seq(lhs), deque_seq(rhs))

\* the six relational operators applied to (lhs, rhs)
deque_relops(lhs, rhs) ==
  [eq |-> deque_eq(lhs, rhs), ne |-> ~deque_eq(lhs, rhs),
   lt |-> deque_lt(lhs, rhs), gt |-> deque_lt(rhs, lhs),
   le |-> ~deque_lt(rhs, lhs), ge |-> ~deque_lt(lhs, rhs)]

\* deque<T>::front(): the slot of data_[head_]
deque_front(d) == d.head_

\* deque<T>::back(): the slot of data_[tail_]
\* mutant: the slot size_ - 1 of the buffer
deque_back_physical(d) == USub(d.size_, 1)

deque_back(d) == d.tail_

\* deque<T>::operator[](pos): the slot of data_[index_at(pos)]
deque_subscript(d, pos) == index_at(d, pos)

\* deque<T>::at(pos): the slot of data_[index_at(pos % capacity_)]
\* mutant: the wrapped index is taken from slot 0, not from head_
deque_at_physical(d, pos) == pos % d.capacity_

deque_at(d, pos) == index_at(d, pos % d.capacity_)

\* deque<T,N>::~deque(): destroy(base::begin(), base::end())
\* mutant: the destructor walks the buffer from slot 0 instead of from head_
deque_dtor_physical(d) ==
  LET r == destroy_each([mem |-> d.data_, err |-> d.lifetime_error],
                        [i \in 1..d.size_ |-> i - 1]) IN
  [d EXCEPT !.data_ = r.mem, !.lifetime_error = r.err]

deque_dtor(d) ==
  LET r == destroy_each([mem |-> d.data_, err |-> d.lifetime_error],
                        deque_range(d, 0)) IN
  [d EXCEPT !.data_ = r.mem, !.lifetime_error = r.err]

(* ---------------------------- optional.h -------------------------------- *)
(* An optional<int> is the record of valid_ and of the content of buffer_, *)
(* a value or Raw; lifetime_error as for the containers.                   *)

\* optional<T>::optional() and optional(nullopt_t)
optional_new == [valid_ |-> FALSE, buffer_ |-> Raw, lifetime_error |-> FALSE]

\* new (&buffer_) value_type(val)
optional_construct(o, val) ==
  [o EXCEPT !.lifetime_error = @ \/ o.buffer_ # Raw, !.buffer_ = val]

\* destroy_at(reinterpret_cast<pointer>(&buffer_))
optional_destroy(o) ==
  [o EXCEPT !.lifetime_error = @ \/ o.buffer_ = Raw, !.buffer_ = Raw]

\* value() = val: assignment to the object in buffer_
optional_store(o, val) ==
  [o EXCEPT !.lifetime_error = @ \/ o.buffer_ = Raw, !.buffer_ = val]

\* the states of an optional<int>: disengaged, or engaged with a value
OptionalStates ==
  {optional_new} \cup
  {[valid_ |-> TRUE, buffer_ |-> v, lifetime_error |-> FALSE] : v \in Vals}

\* optional<T>::optional(const optional& other) and the explicit
\* constructor from a compatible optional<U>, which has the same body
optional_ctor_copy(other) ==
  LET o == [optional_new EXCEPT !.valid_ = other.valid_] IN
  IF o.valid_ THEN optional_construct(o, other.buffer_) ELSE o

\* optional<T>::optional(const_reference val)
optional_ctor_value(val) ==
  optional_construct([optional_new EXCEPT !.valid_ = TRUE], val)

\* optional<T>::~optional()
optional_dtor(o) == IF o.valid_ THEN optional_destroy(o) ELSE o

\* optional<T>::operator=(nullopt_t)
optional_assign_nullopt(o) ==
  IF o.valid_ THEN [optional_destroy(o) EXCEPT !.valid_ = FALSE] ELSE o

\* optional<T>::operator=(const optional<U>& other), other a compatible
\* optional
optional_assign_compatible(o, other) ==
  IF other.valid_
  THEN IF o.valid_ THEN optional_store(o, other.buffer_)
       ELSE [optional_construct(o, other.buffer_) EXCEPT !.valid_ = TRUE]
  ELSE IF o.valid_ THEN [optional_destroy(o) EXCEPT !.valid_ = FALSE]
       ELSE o

\* optional<T>::operator=(const optional& other); self tells this == &other
optional_assign(o, other, self) ==
  IF self THEN o
  ELSE IF other.valid_
  THEN IF o.valid_ THEN optional_store(o, other.buffer_)
       ELSE [optional_construct(o, other.buffer_) EXCEPT !.valid_ = TRUE]
  ELSE IF o.valid_ THEN [optional_destroy(o) EXCEPT !.valid_ = FALSE]
       ELSE o

\* optional<T>::operator=(const_reference val)
optional_assign_value(o, val) ==
  IF o.valid_ THEN optional_store(o, val)
  ELSE [optional_construct(o, val) EXCEPT !.valid_ = TRUE]

\* optional<T>::value_or(default_value)
optional_value_or(o, default_value) ==
  IF o.valid_ THEN o.buffer_ ELSE default_value

\* optional<T>::reset()
\* mutant: valid_ is cleared but the contained object is not destroyed
optional_reset_nodestroy(o) ==
  IF o.valid_ THEN [o EXCEPT !.valid_ = FALSE] ELSE o

optional_reset(o) ==
  IF o.valid_ THEN [optional_destroy(o) EXCEPT !.valid_ = FALSE] ELSE o

\* operator==(const optional<T>& lhs, const optional<U>& rhs)
optional_eq(lhs, rhs) ==
  IF lhs.valid_ # rhs.valid_ THEN FALSE
  ELSE IF ~lhs.valid_ /\ ~rhs.valid_ THEN TRUE
  ELSE lhs.buffer_ = rhs.buffer_

\* operator!=(const optional<T>& lhs, const optional<U>& rhs)
optional_ne(lhs, rhs) == ~optional_eq(lhs, rhs)

\* operator<(const optional<T>& lhs, const optional<U>& rhs)
optional_lt(lhs, rhs) ==
  IF ~rhs.valid_ THEN FALSE
  ELSE IF ~lhs.valid_ THEN TRUE
  ELSE lhs.buffer_ < rhs.buffer_

\* operator<=(const optional<T>& lhs, const optional<U>& rhs)
\* mutant: the two tests are made in the order of operator<
optional_le_rhsfirst(lhs, rhs) ==
  IF ~rhs.valid_ THEN FALSE
  ELSE IF ~lhs.valid_ THEN TRUE
  ELSE lhs.buffer_ <= rhs.buffer_

optional_le(lhs, rhs) ==
  IF ~lhs.valid_ THEN TRUE
  ELSE IF ~rhs.valid_ THEN FALSE
  ELSE lhs.buffer_ <= rhs.buffer_

\* operator>(const optional<T>& lhs, const optional<U>& rhs)
optional_gt(lhs, rhs) == ~optional_le(lhs, rhs)

\* operator>=(const optional<T>& lhs, const optional<U>& rhs)
optional_ge(lhs, rhs) == ~optional_lt(lhs, rhs)

\* the six relational operators applied to (lhs, rhs)
optional_relops(lhs, rhs) ==
  [eq |-> optional_eq(lhs, rhs), ne |-> optional_ne(lhs, rhs),
   lt |-> optional_lt(lhs, rhs), gt |-> optional_gt(lhs, rhs),
   le |-> optional_le(lhs, rhs), ge |-> optional_ge(lhs, rhs)]

\* the six operators (const optional<T>& lhs, nullopt_t)
optional_relops_nullopt(lhs) ==
  [eq |-> ~lhs.valid_, ne |-> lhs.valid_, lt |-> FALSE, gt |-> lhs.valid_,
   le |-> ~lhs.valid_, ge |-> TRUE]

\* the six operators (nullopt_t, const optional<T>& rhs)
nullopt_relops_optional(rhs) ==
  [eq |-> ~rhs.valid_, ne |-> rhs.valid_, lt |-> rhs.valid_, gt |-> FALSE,
   le |-> TRUE, ge |-> ~rhs.valid_]

(* ----------------------------- variant.h -------------------------------- *)
(* A variant<T0, .., T_MaxAlt> of pairwise distinct types whose values are *)
(* Vals is the record of type_ and of the object in buffer_: the           *)
(* alternative it was constructed as and its value, or RawObj when no      *)
(* object is alive in the buffer.  lifetime_error is as for the            *)
(* containers; events lists the constructor, destructor and assignment     *)
(* calls the last member call made on the buffer.                          *)
Alts == 0..MaxAlt

RawObj == [alt |-> Raw, val |-> Raw]

\* new (static_cast<void*>(&buffer_)) T_I(val)
variant_construct(v, I, val) ==
  [v EXCEPT !.lifetime_error = @ \/ v.buffer_ # RawObj,
            !.buffer_ = [alt |-> I, val |-> val],
            !.events = Append(@, "construct")]

\* variant::destroy(): the destructor of alternative type_ on the buffer
variant_destroy(v) ==
  [v EXCEPT !.lifetime_error = @ \/ v.buffer_.alt # v.type_,
            !.buffer_ = RawObj,
            !.events = Append(@, "destroy")]

\* *as<T_I>(&buffer_) = val
variant_store(v, I, val) ==
  [v EXCEPT !.lifetime_error = @ \/ v.buffer_.alt # I,
            !.buffer_ = [alt |-> I, val |-> val],
            !.events = Append(@, "assign")]

\* a member call begins
variant_enter(v) == [v EXCEPT !.events = <<>>]

\* variant::copy_construct(data): data points at the buffer of a variant
\* of the same type_
variant_copy_construct(v, data) == variant_construct(v, v.type_, data.val)

\* variant::copy_assign(data)
variant_copy_assign(v, data) == variant_store(v, v.type_, data.val)

\* variant::variant(): T0() is the value 0
variant_new ==
  variant_construct([type_ |-> 0, buffer_ |-> RawObj,
                     lifetime_error |-> FALSE, events |-> <<>>], 0, 0)

\* variant::variant(const T_I& value)
variant_ctor_value(I, value) ==
  variant_construct([type_ |-> I, buffer_ |-> RawObj,
                     lifetime_error |-> FALSE, events |-> <<>>], I, value)

\* variant::variant(const variant& other)
variant_ctor_copy(other) ==
  variant_copy_construct([type_ |-> other.type_, buffer_ |-> RawObj,
                          lifetime_error |-> FALSE, events |-> <<>>],
                         other.buffer_)

\* variant::~variant()
variant_dtor(v) == variant_destroy(variant_enter(v))

\* variant::copy<T_I>(rhs), the body of every operator=(const T_I& rhs)
\* mutant: the old alternative is not destroyed
variant_copy_nodestroy(v, I, rhs) ==
  IF v.type_ # I
  THEN variant_construct([variant_enter(v) EXCEPT !.type_ = I], I, rhs)
  ELSE variant_store(variant_enter(v), I, rhs)

variant_copy(v, I, rhs) ==
  IF v.type_ # I
  THEN variant_construct(
         [variant_destroy(variant_enter(v)) EXCEPT !.type_ = I], I, rhs)
  ELSE variant_store(variant_enter(v), I, rhs)

\* variant::operator=(const variant& rhs); self tells this == &rhs
variant_assign(v, rhs, self) ==
  IF self THEN variant_enter(v)
  ELSE IF v.type_ # rhs.type_
  THEN variant_copy_construct(
         [variant_destroy(variant_enter(v)) EXCEPT !.type_ = rhs.type_],
         rhs.buffer_)
  ELSE variant_copy_assign(variant_enter(v), rhs.buffer_)

\* variant::index()
variant_index(v) == v.type_

\* variant::value<T_I>() and value<I>(): a pointer to the buffer, or null
variant_value(v, I) ==
  IF I = v.type_ THEN [null |-> FALSE, obj |-> v.buffer_]
  ELSE [null |-> TRUE, obj |-> RawObj]

\* holds_alternative<T_I>(v)
holds_alternative(v, I) == v.type_ = I

\* get_if<T_I>(v) and get_if<I>(v)
get_if(v, I) == variant_value(v, I)

\* get<I>(v): *get_if<I>(v), called with I = v.index()
get(v, I) == get_if(v, I).obj.val

\* what the caller can see of v
variant_observe(v) ==
  [index |-> variant_index(v),
   holds |-> [I \in Alts |-> holds_alternative(v, I)],
   get_if |-> [I \in Alts |-> get_if(v, I)]]

\* operator==(const variant& lhs, const variant& rhs)
variant_eq(lhs, rhs) ==
  IF variant_index(lhs) # variant_index(rhs) THEN FALSE
  ELSE get(lhs, variant_index(lhs)) = get(rhs, variant_index(lhs))

\* operator!=(const variant& lhs, const variant& rhs)
variant_ne(lhs, rhs) == ~variant_eq(lhs, rhs)

\* operator<(const variant& lhs, const variant& rhs)
\* mutant: the values are compared whatever the two indices are
variant_lt_valueonly(lhs, rhs) == lhs.buffer_.val < rhs.buffer_.val

variant_lt(lhs, rhs) ==
  IF variant_index(lhs) < variant_index(rhs) THEN TRUE
  ELSE IF variant_index(lhs) > variant_index(rhs) THEN FALSE
  ELSE get(lhs, variant_index(lhs)) < get(rhs, variant_index(lhs))

\* operator>(const variant& lhs, const variant& rhs)
variant_gt(lhs, rhs) == variant_lt(rhs, lhs)

\* operator<=(const variant& lhs, const variant& rhs)
variant_le(lhs, rhs) == ~variant_lt(rhs, lhs)

\* operator>=(const variant& lhs, const variant& rhs)
variant_ge(lhs, rhs) == ~variant_lt(lhs, rhs)

\* the six relational operators applied to (lhs, rhs)
variant_relops(lhs, rhs) ==
  [eq |-> variant_eq(lhs, rhs), ne |-> variant_ne(lhs, rhs),
   lt |-> variant_lt(lhs, rhs), gt |-> variant_gt(lhs, rhs),
   le |-> variant_le(lhs, rhs), ge |-> variant_ge(lhs, rhs)]

\* the states of a variant: one alternative alive, with any value
VariantStates ==
  {[type_ |-> I, buffer_ |-> [alt |-> I, val |-> x],
    lifetime_error |-> FALSE, events |-> <<>>] : I \in Alts, x \in Vals}

(* --------------------------- the program -------------------------------- *)
(* One object is instantiated, a vector<int,N>, a deque<int,N> or an       *)
(* optional<int>, and its member functions are called in any order with    *)
(* any arguments.                                                          *)
VARIABLES
  N,      \* the template parameter N of the container
  which,  \* "vector", "deque" or "optional": the object instantiated
  vec,    \* the vector<int,N> object
  deq,    \* the deque<int,N> object
  pc,     \* "idle" between calls, "ret" when a call has just returned,
          \* else the position inside deque<T>::resize
  opt,    \* the optional<int> object
  var,    \* the variant object
  call,   \* the arguments of the deque resize / assign call in progress
  last    \* the call made: its name, arguments and result, and the object
          \* before it; kept until the caller has looked at the result

vars == <<N, which, vec, deq, opt, var, pc, call, last>>

NoCall == [count |-> 0, value |-> 0, fill |-> FALSE, val |-> 0]

\* no second object in the call
NoOther == [size_ |-> 0]

Op(op, pre, d, e, count, val, src, ret) ==
  [op |-> op, pre |-> pre, d |-> d, e |-> e, count |-> count, val |-> val,
   src |-> src, ret |-> ret, other |-> NoOther]

\* a call whose argument is a second object, other
OpOther(op, pre, other, ret) ==
  [Op(op, pre, 0, 0, 0, 0, <<>>, ret) EXCEPT !.other = other]

\* no call to look at
NoOp == Op("none", 0, 0, 0, 0, 0, <<>>, 0)

\* the constructors of vector<int,N>
VCtor ==
  \/ /\ vec = vector_new(N)
     /\ last = Op("ctor", vector_new(N), 0, 0, 0, 0, <<>>, 0)
  \/ \E count \in Counts :
       /\ vec = vector_ctor_count(N, count)
       /\ last = Op("ctor_count", vector_new(N), 0, 0, count, 0, <<>>, 0)
  \/ \E count \in Counts, val \in Vals :
       /\ vec = vector_ctor_fill(N, count, val)
       /\ last = Op("ctor_fill", vector_new(N), 0, 0, count, val, <<>>, 0)
  \/ \E src \in SrcRanges :
       /\ vec = vector_construct_range(N, src)
       /\ last = Op("ctor_range", vector_new(N), 0, 0, 0, 0, src, 0)

\* the constructors of deque<int,N>
DCtor ==
  \/ /\ deq = deque_new(N)
     /\ last = Op("ctor", deque_new(N), 0, 0, 0, 0, <<>>, 0)
  \/ \E count \in Counts :
       /\ deq = deque_ctor_count(N, count)
       /\ last = Op("ctor_count", deque_new(N), 0, 0, count, 0, <<>>, 0)
  \/ \E count \in Counts, val \in Vals :
       /\ deq = deque_ctor_fill(N, count, val)
       /\ last = Op("ctor_fill", deque_new(N), 0, 0, count, val, <<>>, 0)
  \/ \E src \in SrcRanges :
       /\ deq = deque_construct_range(N, src)
       /\ last = Op("ctor_range", deque_new(N), 0, 0, 0, 0, src, 0)
  \/ \E other \in DequeStates(N) :
       /\ deq = deque_ctor_copy(N, other)
       /\ last = OpOther("ctor_copy", deque_new(N), other, 0)
  \/ \E other \in OtherDeques :
       /\ deq = deque_ctor_convert(N, other)
       /\ last = OpOther("ctor_convert", deque_new(N), other, 0)

\* the constructors of optional<int>
OCtor ==
  \/ /\ opt = optional_new
     /\ last = Op("opt_ctor", optional_new, 0, 0, 0, 0, <<>>, 0)
  \/ \E other \in OptionalStates :
       /\ opt = optional_ctor_copy(other)
       /\ last = OpOther("opt_ctor_copy", optional_new, other, 0)
  \/ \E val \in Vals :
       /\ opt = optional_ctor_value(val)
       /\ last = Op("opt_ctor_value", optional_new, 0, 0, 0, val, <<>>, 0)

\* the constructors of the variant
VarCtor ==
  \/ /\ var = variant_new
     /\ last = Op("var_ctor", variant_new, 0, 0, 0, 0, <<>>,
                  variant_observe(variant_new))
  \/ \E I \in Alts, value \in Vals :
       /\ var = variant_ctor_value(I, value)
       /\ last = Op("var_ctor_value", variant_new, I, 0, 0, value, <<>>,
                    variant_observe(variant_ctor_value(I, value)))
  \/ \E other \in VariantStates :
       /\ var = variant_ctor_copy(other)
       /\ last = OpOther("var_ctor_copy", variant_new, other,
                         variant_observe(variant_ctor_copy(other)))

\* one object has just been constructed, by any of its constructors (with
\* an optional or a variant, N is not used)
Init ==
  /\ N \in Caps
  /\ which \in {"vector", "deque", "optional", "variant"}
  /\ \/ /\ which = "vector" /\ VCtor
        /\ deq = deque_new(N) /\ opt = optional_new /\ var = variant_new
     \/ /\ which = "deque" /\ DCtor
        /\ vec = vector_new(N) /\ opt = optional_new /\ var = variant_new
     \/ /\ which = "optional" /\ N = 1 /\ OCtor
        /\ vec = vector_new(N) /\ deq = deque_new(N) /\ var = variant_new
     \/ /\ which = "variant" /\ N = 1 /\ VarCtor
        /\ vec = vector_new(N) /\ deq = deque_new(N) /\ opt = optional_new
  /\ pc = "ret"
  /\ call = NoCall

\* the container that was instantiated
Cur == IF which = "vector" THEN vec ELSE deq

VecIdle == which = "vector" /\ pc = "idle"
OptIdle == which = "optional" /\ pc = "idle"
VarIdle == which = "variant" /\ pc = "idle"
ContIdle == which \in {"vector", "deque"} /\ pc = "idle"
DeqIdle == which = "deque" /\ pc = "idle"

(* ------------------------- calls on the vector -------------------------- *)
VPushBack ==
  /\ VecIdle
  /\ \E val \in Vals :
       /\ vec' = vector_push_back(vec, val)
       /\ last' = Op("push_back", vec, 0, 0, 0, val, <<>>, 0)
  /\ pc' = "ret"
  /\ UNCHANGED <<N, which, var, opt, deq, call>>

VPopBack ==
  /\ VecIdle
  /\ vec' = vector_pop_back(vec)
  /\ last' = Op("pop_back", vec, 0, 0, 0, 0, <<>>, 0)
  /\ pc' = "ret"
  /\ UNCHANGED <<N, which, var, opt, deq, call>>

VResize ==
  /\ VecIdle
  /\ \E count \in Counts :
       /\ vec' = vector_resize(vec, count, 0)
       /\ last' = Op("resize", vec, 0, 0, count, 0, <<>>, 0)
  /\ pc' = "ret"
  /\ UNCHANGED <<N, which, var, opt, deq, call>>

VResizeVal ==
  /\ VecIdle
  /\ \E count \in Counts, val \in Vals :
       /\ vec' = vector_resize(vec, count, val)
       /\ last' = Op("resize_val", vec, 0, 0, count, val, <<>>, 0)
  /\ pc' = "ret"
  /\ UNCHANGED <<N, which, var, opt, deq, call>>

VClear ==
  /\ VecIdle
  /\ vec' = vector_clear(vec)
  /\ last' = Op("clear", vec, 0, 0, 0, 0, <<>>, 0)
  /\ pc' = "ret"
  /\ UNCHANGED <<N, which, var, opt, deq, call>>

VAssign ==
  /\ VecIdle
  /\ \E count \in Counts, val \in Vals :
       /\ vec' = vector_assign(vec, count, val)
       /\ last' = Op("assign", vec, 0, 0, count, val, <<>>, 0)
  /\ pc' = "ret"
  /\ UNCHANGED <<N, which, var, opt, deq, call>>

VAssignRange ==
  /\ VecIdle
  /\ \E src \in SrcRanges :
       /\ vec' = vector_assign_range(vec, src)
       /\ last' = Op("assign_range", vec, 0, 0, 0, 0, src, 0)
  /\ pc' = "ret"
  /\ UNCHANGED <<N, which, var, opt, deq, call>>

VInsert ==
  /\ VecIdle
  /\ \E d \in 0..vec.size_, val \in Vals :
       /\ vec' = vector_insert(vec, d, val)
       /\ last' = Op("insert", vec, d, 0, 0, val, <<>>, d)
  /\ pc' = "ret"
  /\ UNCHANGED <<N, which, var, opt, deq, call>>

VInsertN ==
  /\ VecIdle
  /\ \E d \in 0..vec.size_, count \in Counts, val \in Vals :
       /\ vec' = vector_insert_n(vec, d, count, val)
       /\ last' = Op("insert_n", vec, d, 0, count, val, <<>>, d)
  /\ pc' = "ret"
  /\ UNCHANGED <<N, which, var, opt, deq, call>>

VInsertRange ==
  /\ VecIdle
  /\ \E d \in 0..vec.size_, src \in SrcRanges :
       /\ vec' = vector_insert_range(vec, d, src)
       /\ last' = Op("insert_range", vec, d, 0, 0, 0, src, d)
  /\ pc' = "ret"
  /\ UNCHANGED <<N, which, var, opt, deq, call>>

\* v.insert(begin() + d, v[k]): the value is an element of the vector
VInsertRef ==
  /\ VecIdle
  /\ \E d \in 0..vec.size_, k \in 0..(vec.size_ - 1) :
       /\ vec' = vector_insert_ref(vec, d, k)
       /\ last' = Op("insert_ref", vec, d, k, 1, vec.data_[k], <<>>, d)
  /\ pc' = "ret"
  /\ UNCHANGED <<N, which, var, opt, deq, call>>

\* v.insert(begin() + d, count, v[k])
VInsertNRef ==
  /\ VecIdle
  /\ \E d \in 0..vec.size_, k \in 0..(vec.size_ - 1), count \in Counts :
       /\ vec' = vector_insert_n_ref(vec, d, count, k)
       /\ last' = Op("insert_n_ref", vec, d, k, count, vec.data_[k], <<>>, d)
  /\ pc' = "ret"
  /\ UNCHANGED <<N, which, var, opt, deq, call>>

VErase ==
  /\ VecIdle
  /\ \E d \in 0..(vec.size_ - 1) :
       /\ vec' = vector_erase(vec, d)
       /\ last' = Op("erase", vec, d, 0, 0, 0, <<>>, d)
  /\ pc' = "ret"
  /\ UNCHANGED <<N, which, var, opt, deq, call>>

VEraseRange ==
  /\ VecIdle
  /\ \E i \in 0..vec.size_ : \E j \in i..vec.size_ :
       /\ vec' = vector_erase_range(vec, i, j)
       /\ last' = Op("erase_range", vec, i, j, 0, 0, <<>>, i)
  /\ pc' = "ret"
  /\ UNCHANGED <<N, which, var, opt, deq, call>>

\* erase(insert(pos, val)); the iterator handed to erase must denote an
\* element, which it does unless the vector was full and pos was end()
VEraseInsert ==
  /\ VecIdle
  /\ \E d \in 0..vec.size_, val \in Vals :
       /\ vec.size_ < vec.capacity_ \/ d < vec.size_
       /\ vec' = vector_erase_insert(vec, d, val)
       /\ last' = Op("erase_insert", vec, d, 0, 0, val, <<>>, d)
  /\ pc' = "ret"
  /\ UNCHANGED <<N, which, var, opt, deq, call>>

\* sstd::rotate over [begin() + lo, begin() + hi) of the vector, split at
\* offset k; ret is the offset from begin() of the iterator returned
VRotate ==
  /\ VecIdle
  /\ \E lo \in 0..vec.size_ : \E hi \in lo..vec.size_ : \E k \in 0..(hi - lo) :
       /\ vec' = vector_rotate(vec, lo, k, hi)
       /\ last' = Op("rotate", vec, lo, hi, k, 0, <<>>,
                     lo + rotate_result(hi - lo, k))
  /\ pc' = "ret"
  /\ UNCHANGED <<N, which, var, opt, deq, call>>

\* two calls of sstd::rotate on the same range, at offsets k and n - k
VRotateRotate ==
  /\ VecIdle
  /\ \E lo \in 0..vec.size_ : \E hi \in lo..vec.size_ : \E k \in 0..(hi - lo) :
       /\ vec' = vector_rotate_rotate(vec, lo, k, hi)
       /\ last' = Op("rotate_rotate", vec, lo, hi, k, 0, <<>>, 0)
  /\ pc' = "ret"
  /\ UNCHANGED <<N, which, var, opt, deq, call>>

\* sstd::rotate(rbegin(), rbegin() + c, reverse_iterator(begin() + d))
VRotateRight ==
  /\ VecIdle
  /\ \E d \in 0..vec.size_ : \E c \in 0..(vec.size_ - d) :
       /\ vec' = [vec EXCEPT !.data_ = rotate(vec.data_, vector_rrange(vec, d), c)]
       /\ last' = Op("rrotate", vec, d, 0, c, 0, <<>>, 0)
  /\ pc' = "ret"
  /\ UNCHANGED <<N, which, var, opt, deq, call>>

\* sstd::lexicographical_compare of [begin(), end()) of the vector with an
\* array src, in this order (count = 0) or the other (1)
VLexCompare ==
  /\ VecIdle
  /\ \E src \in SrcRanges : \E swapped \in 0..1 :
       LET a == vector_seq(vec) IN
       last' = Op("lexicographical_compare", vec, 0, vec.size_, swapped, 0, src,
                  IF swapped = 0 THEN lexicographical_compare(a, src)
                  ELSE lexicographical_compare(src, a))
  /\ pc' = "ret"
  /\ UNCHANGED <<N, which, var, opt, vec, deq, call>>

\* v == rhs, v != rhs, v < rhs, ... with rhs a vector<int,M> in any state
VCompare ==
  /\ VecIdle
  /\ \E rhs \in OtherVectors :
       last' = OpOther("compare", vec, rhs, vector_relops(vec, rhs))
  /\ pc' = "ret"
  /\ UNCHANGED <<N, which, var, opt, vec, deq, call>>

\* v.at(pos); ret is the slot the returned reference denotes
VAt ==
  /\ VecIdle
  /\ \E pos \in Positions :
       last' = Op("at", vec, pos, 0, 0, 0, <<>>, vector_at(vec, pos))
  /\ pc' = "ret"
  /\ UNCHANGED <<N, which, var, opt, vec, deq, call>>

\* the vector goes out of scope
VDtor ==
  /\ VecIdle
  /\ vec' = vector_dtor(vec)
  /\ last' = Op("dtor", vec, 0, 0, 0, 0, <<>>, 0)
  /\ pc' = "dead"
  /\ UNCHANGED <<N, which, var, opt, deq, call>>

(* -------------------------- calls on the deque -------------------------- *)
DPushBack ==
  /\ DeqIdle
  /\ \E val \in Vals :
       /\ deq' = deque_push_back(deq, val)
       /\ last' = Op("push_back", deq, 0, 0, 0, val, <<>>, 0)
  /\ pc' = "ret"
  /\ UNCHANGED <<N, which, var, opt, vec, call>>

DPushFront ==
  /\ DeqIdle
  /\ \E val \in Vals :
       /\ deq' = deque_push_front(deq, val)
       /\ last' = Op("push_front", deq, 0, 0, 0, val, <<>>, 0)
  /\ pc' = "ret"
  /\ UNCHANGED <<N, which, var, opt, vec, call>>

DPopBack ==
  /\ DeqIdle
  /\ deq' = deque_pop_back(deq)
  /\ last' = Op("pop_back", deq, 0, 0, 0, 0, <<>>, 0)
  /\ pc' = "ret"
  /\ UNCHANGED <<N, which, var, opt, vec, call>>

DPopFront ==
  /\ DeqIdle
  /\ deq' = deque_pop_front(deq)
  /\ last' = Op("pop_front", deq, 0, 0, 0, 0, <<>>, 0)
  /\ pc' = "ret"
  /\ UNCHANGED <<N, which, var, opt, vec, call>>

DClear ==
  /\ DeqIdle
  /\ deq' = deque_clear(deq)
  /\ last' = Op("clear", deq, 0, 0, 0, 0, <<>>, 0)
  /\ pc' = "ret"
  /\ UNCHANGED <<N, which, var, opt, vec, call>>

DAssignRange ==
  /\ DeqIdle
  /\ \E src \in SrcRanges :
       /\ deq' = deque_assign_range(deq, src)
       /\ last' = Op("assign_range", deq, 0, 0, 0, 0, src, 0)
  /\ pc' = "ret"
  /\ UNCHANGED <<N, which, var, opt, vec, call>>

\* d = rhs, rhs a deque<int,M> in any of its states
DCopyAssign ==
  /\ DeqIdle
  /\ \E rhs \in OtherDeques :
       /\ deq' = deque_copy_assign(deq, rhs)
       /\ last' = OpOther("copy_assign", deq, rhs, 0)
  /\ pc' = "ret"
  /\ UNCHANGED <<N, which, var, opt, vec, call>>

DInsert ==
  /\ DeqIdle
  /\ \E d \in 0..deq.size_, val \in Vals :
       /\ deq' = deque_insert(deq, d, val)
       /\ last' = Op("insert", deq, d, 0, 0, val, <<>>, d)
  /\ pc' = "ret"
  /\ UNCHANGED <<N, which, var, opt, vec, call>>

DInsertN ==
  /\ DeqIdle
  /\ \E d \in 0..deq.size_, count \in Counts, val \in Vals :
       /\ deq' = deque_insert_n(deq, d, count, val)
       /\ last' = Op("insert_n", deq, d, 0, count, val, <<>>, d)
  /\ pc' = "ret"
  /\ UNCHANGED <<N, which, var, opt, vec, call>>

DInsertRange ==
  /\ DeqIdle
  /\ \E d \in 0..deq.size_, src \in SrcRanges :
       /\ deq' = deque_insert_range(deq, d, src)
       /\ last' = Op("insert_range", deq, d, 0, 0, 0, src, d)
  /\ pc' = "ret"
  /\ UNCHANGED <<N, which, var, opt, vec, call>>

\* q.insert(begin() + d, q[k]): the value is an element of the deque
DInsertRef ==
  /\ DeqIdle
  /\ \E d \in 0..deq.size_, k \in 0..(deq.size_ - 1) :
       /\ deq' = deque_insert_ref(deq, d, k)
       /\ last' = Op("insert_ref", deq, d, k, 1, deq.data_[index_at(deq, k)],
                     <<>>, d)
  /\ pc' = "ret"
  /\ UNCHANGED <<N, which, var, opt, vec, call>>

\* q.insert(begin() + d, count, q[k])
DInsertNRef ==
  /\ DeqIdle
  /\ \E d \in 0..deq.size_, k \in 0..(deq.size_ - 1), count \in Counts :
       /\ deq' = deque_insert_n_ref(deq, d, count, k)
       /\ last' = Op("insert_n_ref", deq, d, k, count,
                     deq.data_[index_at(deq, k)], <<>>, d)
  /\ pc' = "ret"
  /\ UNCHANGED <<N, which, var, opt, vec, call>>

DErase ==
  /\ DeqIdle
  /\ \E d \in 0..(deq.size_ - 1) :
       /\ deq' = deque_erase(deq, d)
       /\ last' = Op("erase", deq, d, 0, 0, 0, <<>>, d)
  /\ pc' = "ret"
  /\ UNCHANGED <<N, which, var, opt, vec, call>>

DEraseRange ==
  /\ DeqIdle
  /\ \E i \in 0..deq.size_ : \E j \in i..deq.size_ :
       /\ deq' = deque_erase_range(deq, i, j)
       /\ last' = Op("erase_range", deq, i, j, 0, 0, <<>>, i)
  /\ pc' = "ret"
  /\ UNCHANGED <<N, which, var, opt, vec, call>>

\* erase(insert(pos, val)); the iterator handed to erase must denote an
\* element, which it does unless the deque was full and pos was end()
DEraseInsert ==
  /\ DeqIdle
  /\ \E d \in 0..deq.size_, val \in Vals :
       /\ deq.size_ < deq.capacity_ \/ d < deq.size_
       /\ deq' = deque_erase_insert(deq, d, val)
       /\ last' = Op("erase_insert", deq, d, 0, 0, val, <<>>, d)
  /\ pc' = "ret"
  /\ UNCHANGED <<N, which, var, opt, vec, call>>

(* deque<T>::resize(count), resize(count, value) and assign(count, val) are *)
(* stepped through: pc is the position inside resize's two while loops.     *)

\* call of deque<T>::resize(count): the value pushed is value_type()
DResizeCall ==
  /\ DeqIdle
  /\ \E count \in Counts :
       /\ call' = [count |-> count, value |-> 0, fill |-> FALSE, val |-> 0]
       /\ last' = Op("resize", deq, 0, 0, count, 0, <<>>, 0)
  /\ pc' = "shrink"
  /\ UNCHANGED <<N, which, var, opt, vec, deq>>

\* call of deque<T>::resize(count, value)
DResizeValCall ==
  /\ DeqIdle
  /\ \E count \in Counts, val \in Vals :
       /\ call' = [count |-> count, value |-> val, fill |-> FALSE, val |-> 0]
       /\ last' = Op("resize_val", deq, 0, 0, count, val, <<>>, 0)
  /\ pc' = "shrink"
  /\ UNCHANGED <<N, which, var, opt, vec, deq>>

\* call of deque<T>::assign(count, val): resize(count), then fill_n
DAssignCall ==
  /\ DeqIdle
  /\ \E count \in Counts, val \in Vals :
       /\ call' = [count |-> count, value |-> 0, fill |-> TRUE, val |-> val]
       /\ last' = Op("assign", deq, 0, 0, count, val, <<>>, 0)
  /\ pc' = "shrink"
  /\ UNCHANGED <<N, which, var, opt, vec, deq>>

\* the test of   while (count < size_)
DShrinkTest ==
  /\ pc = "shrink"
  /\ pc' = IF call.count < deq.size_ THEN "pop" ELSE "grow"
  /\ UNCHANGED <<N, which, var, opt, vec, deq, call, last>>

\* its body   { pop_back(); }
DShrinkBody ==
  /\ pc = "pop"
  /\ deq' = deque_pop_back(deq)
  /\ pc' = "shrink"
  /\ UNCHANGED <<N, which, var, opt, vec, call, last>>

\* the test of   while (count > size_) ; resize returns when it fails
DGrowTest ==
  /\ pc = "grow"
  /\ IF call.count > deq.size_
     THEN pc' = "push" /\ call' = call
     ELSE IF call.fill
          THEN pc' = "fill" /\ call' = call
          ELSE pc' = "ret" /\ call' = NoCall
  /\ UNCHANGED <<N, which, var, opt, vec, deq, last>>

\* its body   { push_back(value); }
DGrowBody ==
  /\ pc = "push"
  /\ deq' = deque_push_back(deq, call.value)
  /\ pc' = "grow"
  /\ UNCHANGED <<N, which, var, opt, vec, call, last>>

\* the rest of assign(count, val):   fill_n(begin(), size_, val)
DAssignFill ==
  /\ pc = "fill"
  /\ deq' = [deq EXCEPT !.data_ = fill_n(deq.data_, deque_range(deq, 0),
                                         deq.size_, call.val)]
  /\ pc' = "ret"
  /\ call' = NoCall
  /\ UNCHANGED <<N, which, var, opt, vec, last>>

\* the caller has looked at the result of the call and goes on
\* sstd::rotate(rbegin(), rbegin() + c, reverse_iterator(begin() + dd))
DRotateRight ==
  /\ DeqIdle
  /\ \E dd \in 0..deq.size_ : \E c \in 0..(deq.size_ - dd) :
       /\ deq' = [deq EXCEPT !.data_ = rotate(deq.data_, deque_rrange(deq, dd), c)]
       /\ last' = Op("rrotate", deq, dd, 0, c, 0, <<>>, 0)
  /\ pc' = "ret"
  /\ UNCHANGED <<N, which, var, opt, vec, call>>

\* d == rhs, d != rhs, d < rhs, ... with rhs a deque<int,M> in any state
DCompare ==
  /\ DeqIdle
  /\ \E rhs \in OtherDeques :
       last' = OpOther("compare", deq, rhs, deque_relops(deq, rhs))
  /\ pc' = "ret"
  /\ UNCHANGED <<N, which, var, opt, vec, deq, call>>

\* d.at(pos); ret is the slot the returned reference denotes
DAt ==
  /\ DeqIdle
  /\ \E pos \in Positions :
       last' = Op("at", deq, pos, 0, 0, 0, <<>>, deque_at(deq, pos))
  /\ pc' = "ret"
  /\ UNCHANGED <<N, which, var, opt, vec, deq, call>>

\* index_at(pos), increment_index(pos) and decrement_index(pos) for a
\* logical offset / an index pos in [0, capacity_), and the two indices
\* handed from one of increment_index, decrement_index to the other
DIndexAt ==
  /\ DeqIdle
  /\ \E pos \in 0..(deq.capacity_ - 1) :
       last' = Op("index_at", deq, pos, 0, 0, 0, <<>>,
                  [index |-> index_at(deq, pos),
                   subs |-> index_at_subtractions(deq, pos),
                   inc |-> increment_index(deq, pos),
                   dec |-> decrement_index(deq, pos),
                   incdec |-> increment_index(deq, decrement_index(deq, pos)),
                   decinc |-> decrement_index(deq, increment_index(deq, pos))])
  /\ pc' = "ret"
  /\ UNCHANGED <<N, which, var, opt, vec, deq, call>>

\* the deque goes out of scope
DDtor ==
  /\ DeqIdle
  /\ deq' = deque_dtor(deq)
  /\ last' = Op("dtor", deq, 0, 0, 0, 0, <<>>, 0)
  /\ pc' = "dead"
  /\ UNCHANGED <<N, which, var, opt, vec, call>>

\* c.front() and c.back() on a non-empty container; ret holds the slots the
\* two references denote
FrontBack ==
  /\ ContIdle
  /\ Cur.size_ > 0
  /\ last' = Op("front_back", Cur, 0, 0, 0, 0, <<>>,
                IF which = "vector"
                THEN [front |-> vector_front(vec), back |-> vector_back(vec)]
                ELSE [front |-> deque_front(deq), back |-> deque_back(deq)])
  /\ pc' = "ret"
  /\ UNCHANGED <<N, which, var, opt, vec, deq, call>>

\* for (it = c.rbegin(); it != c.rend(); ++it) visit(*it), and
\* distance(c.rbegin(), c.rend()): src holds the positions visited
ReverseWalk ==
  /\ ContIdle
  /\ LET rbegin == reverse_iterator(Cur.size_)
         rend   == reverse_iterator(0)
     IN last' = Op("reverse_walk", Cur, 0, 0, 0, 0,
                   reverse_walk(rbegin, rend), reverse_distance(rbegin, rend))
  /\ pc' = "ret"
  /\ UNCHANGED <<N, which, var, opt, vec, deq, call>>

\* reverse_iterator(c.begin() + d): its base() and, for d > 0, the position
\* it dereferences to
ReverseAt ==
  /\ ContIdle
  /\ \E d \in 0..Cur.size_ :
       LET r == reverse_iterator(d) IN
       last' = Op("reverse_iterator", Cur, d, 0, 0, 0, <<>>,
                  [base |-> reverse_base(r),
                   deref |-> IF d > 0 THEN reverse_deref(r) ELSE 0])
  /\ pc' = "ret"
  /\ UNCHANGED <<N, which, var, opt, vec, deq, call>>

\* r++ on r = reverse_iterator(begin() + d), r not rend()
ReversePostInc ==
  /\ ContIdle
  /\ \E d \in 1..Cur.size_ :
       last' = Op("reverse_postinc", Cur, d, 0, 0, 0, <<>>,
                  reverse_postinc(reverse_iterator(d)))
  /\ pc' = "ret"
  /\ UNCHANGED <<N, which, var, opt, vec, deq, call>>

\* r-- on r = reverse_iterator(begin() + d), r after rbegin()
ReversePostDec ==
  /\ ContIdle
  /\ \E d \in 1..(Cur.size_ - 1) :
       last' = Op("reverse_postdec", Cur, d, 0, 0, 0, <<>>,
                  reverse_postdec(reverse_iterator(d)))
  /\ pc' = "ret"
  /\ UNCHANGED <<N, which, var, opt, vec, deq, call>>

\* r += n on r = reverse_iterator(begin() + d), within [rbegin(), rend()]
ReverseAddAssign ==
  /\ ContIdle
  /\ \E d \in 0..Cur.size_ : \E n \in 0..d :
       last' = Op("reverse_add_assign", Cur, d, 0, n, 0, <<>>,
                  reverse_add_assign(reverse_iterator(d), n))
  /\ pc' = "ret"
  /\ UNCHANGED <<N, which, var, opt, vec, deq, call>>

\* r -= n on r = reverse_iterator(begin() + d), within [rbegin(), rend()]
ReverseSubAssign ==
  /\ ContIdle
  /\ \E d \in 0..Cur.size_ : \E n \in 0..(Cur.size_ - d) :
       last' = Op("reverse_sub_assign", Cur, d, 0, n, 0, <<>>,
                  reverse_sub_assign(reverse_iterator(d), n))
  /\ pc' = "ret"
  /\ UNCHANGED <<N, which, var, opt, vec, deq, call>>

(* ------------------------ calls on the optional ------------------------ *)
OAssignNullopt ==
  /\ OptIdle
  /\ opt' = optional_assign_nullopt(opt)
  /\ last' = Op("opt_assign_nullopt", opt, 0, 0, 0, 0, <<>>, 0)
  /\ pc' = "ret"
  /\ UNCHANGED <<N, which, var, vec, deq, call>>

\* o = other, other an optional<int> in any state, or o itself
OAssign ==
  /\ OptIdle
  /\ \/ \E other \in OptionalStates :
          /\ opt' = optional_assign(opt, other, FALSE)
          /\ last' = OpOther("opt_assign", opt, other, 0)
     \/ /\ opt' = optional_assign(opt, opt, TRUE)
        /\ last' = OpOther("opt_assign", opt, opt, 1)
  /\ pc' = "ret"
  /\ UNCHANGED <<N, which, var, vec, deq, call>>

\* o = other, other an optional of a compatible type in any state
OAssignCompatible ==
  /\ OptIdle
  /\ \E other \in OptionalStates :
       /\ opt' = optional_assign_compatible(opt, other)
       /\ last' = OpOther("opt_assign", opt, other, 0)
  /\ pc' = "ret"
  /\ UNCHANGED <<N, which, var, vec, deq, call>>

OAssignValue ==
  /\ OptIdle
  /\ \E val \in Vals :
       /\ opt' = optional_assign_value(opt, val)
       /\ last' = Op("opt_assign_value", opt, 0, 0, 0, val, <<>>, 0)
  /\ pc' = "ret"
  /\ UNCHANGED <<N, which, var, vec, deq, call>>

OReset ==
  /\ OptIdle
  /\ opt' = optional_reset(opt)
  /\ last' = Op("opt_reset", opt, 0, 0, 0, 0, <<>>, 0)
  /\ pc' = "ret"
  /\ UNCHANGED <<N, which, var, vec, deq, call>>

OValueOr ==
  /\ OptIdle
  /\ \E val \in Vals :
       last' = Op("opt_value_or", opt, 0, 0, 0, val, <<>>,
                  optional_value_or(opt, val))
  /\ pc' = "ret"
  /\ UNCHANGED <<N, which, var, vec, deq, opt, call>>

\* the six relational operators of the optional and another optional
OCompare ==
  /\ OptIdle
  /\ \E other \in OptionalStates :
       last' = OpOther("opt_compare", opt, other, optional_relops(opt, other))
  /\ pc' = "ret"
  /\ UNCHANGED <<N, which, var, vec, deq, opt, call>>

\* the six relational operators of the optional and nullopt, nullopt on
\* the right (ret.right) and on the left (ret.left)
OCompareNullopt ==
  /\ OptIdle
  /\ last' = Op("opt_compare_nullopt", opt, 0, 0, 0, 0, <<>>,
                [right |-> optional_relops_nullopt(opt),
                 left |-> nullopt_relops_optional(opt)])
  /\ pc' = "ret"
  /\ UNCHANGED <<N, which, var, vec, deq, opt, call>>

\* the optional goes out of scope
ODtor ==
  /\ OptIdle
  /\ opt' = optional_dtor(opt)
  /\ last' = Op("opt_dtor", opt, 0, 0, 0, 0, <<>>, 0)
  /\ pc' = "dead"
  /\ UNCHANGED <<N, which, var, vec, deq, call>>

(* ------------------------- calls on the variant ------------------------ *)
\* v = rhs, rhs a value of alternative I; then index(), holds_alternative
\* and get_if of every alternative
VarAssignValue ==
  /\ VarIdle
  /\ \E I \in Alts, rhs \in Vals :
       LET v == variant_copy(var, I, rhs) IN
       /\ var' = v
       /\ last' = Op("var_assign_value", var, I, 0, 0, rhs, <<>>,
                     variant_observe(v))
  /\ pc' = "ret"
  /\ UNCHANGED <<N, which, vec, deq, opt, call>>

\* v = rhs, rhs a variant in any state, or v itself (e = 1); then the
\* observers
VarAssign ==
  /\ VarIdle
  /\ \/ \E rhs \in VariantStates :
          LET v == variant_assign(var, rhs, FALSE) IN
          /\ var' = v
          /\ last' = OpOther("var_assign", var, rhs, variant_observe(v))
     \/ LET v == variant_assign(var, var, TRUE) IN
        /\ var' = v
        /\ last' = [OpOther("var_assign", var, var, variant_observe(v))
                      EXCEPT !.e = 1]
  /\ pc' = "ret"
  /\ UNCHANGED <<N, which, vec, deq, opt, call>>

\* the six relational operators of the variant and another variant of the
\* same type
VarCompare ==
  /\ VarIdle
  /\ \E rhs \in VariantStates :
       last' = OpOther("var_compare", var, rhs, variant_relops(var, rhs))
  /\ pc' = "ret"
  /\ UNCHANGED <<N, which, vec, deq, opt, var, call>>

\* the variant goes out of scope
VarDtor ==
  /\ VarIdle
  /\ var' = variant_dtor(var)
  /\ last' = Op("var_dtor", var, 0, 0, 0, 0, <<>>, 0)
  /\ pc' = "dead"
  /\ UNCHANGED <<N, which, vec, deq, opt, call>>

Return ==
  /\ pc = "ret"
  /\ pc' = "idle"
  /\ last' = NoOp
  /\ UNCHANGED <<N, which, var, opt, vec, deq, call>>

\* one step of the call in progress
ResizeStep ==
  \/ DShrinkTest \/ DShrinkBody \/ DGrowTest \/ DGrowBody \/ DAssignFill

Next ==
  \/ VPushBack \/ VPopBack \/ VResize \/ VResizeVal \/ VClear
  \/ VAssign \/ VAssignRange \/ VInsert \/ VInsertN \/ VInsertRange
  \/ VInsertRef \/ VInsertNRef \/ DInsertRef \/ DInsertNRef
  \/ VErase \/ VEraseRange \/ VEraseInsert \/ VAt \/ VDtor
  \/ VRotate \/ VRotateRotate \/ VRotateRight \/ DRotateRight
  \/ VLexCompare \/ VCompare \/ DCompare
  \/ FrontBack \/ ReverseWalk \/ ReverseAt
  \/ ReversePostInc \/ ReversePostDec \/ ReverseAddAssign \/ ReverseSubAssign
  \/ OAssignNullopt \/ OAssign \/ OAssignCompatible \/ OAssignValue
  \/ OReset \/ OValueOr \/ ODtor \/ OCompare \/ OCompareNullopt
  \/ VarAssignValue \/ VarAssign \/ VarCompare \/ VarDtor
  \/ DPushBack \/ DPushFront \/ DPopBack \/ DPopFront \/ DClear
  \/ DAssignRange \/ DCopyAssign \/ DInsert \/ DInsertN \/ DInsertRange
  \/ DErase \/ DEraseRange \/ DEraseInsert \/ DAt \/ DIndexAt \/ DDtor
  \/ DResizeCall \/ DResizeValCall \/ DAssignCall
  \/ ResizeStep
  \/ Return

Spec == Init /\ [][Next]_vars

\* the program is single-threaded and synchronous: a call that was started
\* keeps executing, so a step of the call in progress is always taken
LiveSpec == Init /\ [][Next]_vars /\ WF_vars(ResizeStep)

(* ------------------------------ properties ------------------------------ *)
\* the container under test, now and before the last call, and their
\* logical element sequences read begin() to end()
SeqOf(c) == IF which = "vector" THEN vector_seq(c) ELSE deque_seq(c)
CurSeq == SeqOf(Cur)
PreSeq == SeqOf(last.pre)
\* a call of one of ops has just returned
Returned(ops) == pc = "ret" /\ last.op \in ops

\* C1: in every state of a vector and of a deque of any capacity N >= 1,
\* 0 <= size() <= max_size(), and max_size() is still N.
C1_SizeWithinCapacity ==
  /\ 0 <= vec.size_ /\ vec.size_ <= vec.capacity_ /\ vec.capacity_ = N
  /\ 0 <= deq.size_ /\ deq.size_ <= deq.capacity_ /\ deq.capacity_ = N

\* reached: a count insert that asked for more than the free slots filled
\* the deque up to its capacity
C1_Witness ==
  /\ which = "deque" /\ Returned({"insert_n"})
  /\ last.pre.size_ < N /\ last.count > N - last.pre.size_
  /\ deq.size_ = N

\* C2: vector::pop_back() on an empty vector is a no-op: size() stays 0 and
\* no slot is constructed or destroyed.
C2_VectorPopBackEmptyNoop ==
  (which = "vector" /\ Returned({"pop_back"}) /\ last.pre.size_ = 0)
    => (vec.size_ = 0 /\ vec = last.pre)

\* C3: deque::pop_back() and pop_front() on an empty deque are no-ops: size
\* stays 0, head and tail are unchanged, no slot is destroyed, whatever the
\* head value.
C3_DequePopEmptyNoop ==
  (which = "deque" /\ Returned({"pop_back", "pop_front"}) /\ last.pre.size_ = 0)
    => (deq.size_ = 0 /\ deq = last.pre)

\* reached: pop_front on a deque that became empty with its head moved
C3_Witness ==
  /\ which = "deque" /\ Returned({"pop_front"})
  /\ last.pre.size_ = 0 /\ last.pre.head_ # 0 /\ deq.head_ = last.pre.head_

\* C4: deque::resize(count) and resize(count, value) terminate for every
\* count, and end with size() == min(count, max_size()).
C4_DequeResizeTerminates ==
  (which = "deque" /\ pc = "shrink" /\ last.op \in {"resize", "resize_val"})
    ~> (pc = "ret" /\ deq.size_ = min(last.count, N))

\* C5 for the vector: after assign(count, val), size() == min(count,
\* max_size()) and every element equals val
C5_VectorAssigned ==
  (which = "vector" /\ Returned({"assign"}))
    => /\ vec.size_ = min(last.count, N)
       /\ \A i \in 1..vec.size_ : vector_seq(vec)[i] = last.val

\* C5 for the deque: the same, once the call has returned
C5_DequeAssigned ==
  /\ pc = "ret"
  /\ deq.size_ = min(last.count, N)
  /\ \A i \in 1..deq.size_ : deque_seq(deq)[i] = last.val

\* C5: assign(count, val) on a vector or a deque, for any count and any
\* prior content, completes and leaves size() == min(count, max_size())
\* with every element equal to val.
C5_AssignCompletes ==
  /\ [](C5_VectorAssigned)
  /\ ((which = "deque" /\ pc = "shrink" /\ last.op = "assign") ~> C5_DequeAssigned)

\* C6: vector::resize(count) and resize(count, value).  Growing: size() ==
\* min(count, capacity()), the old elements are unchanged, every new element
\* is 0 for resize(count) and value for resize(count, value).  Otherwise the
\* first count elements are unchanged and size() == count.
C6_VectorResize ==
  (which = "vector" /\ Returned({"resize", "resize_val"}))
    => LET pre == last.pre
           c   == last.count
           new == IF last.op = "resize" THEN 0 ELSE last.val
       IN IF c > pre.size_
          THEN /\ vec.size_ = min(c, pre.capacity_)
               /\ \A i \in 0..(pre.size_ - 1) : vec.data_[i] = pre.data_[i]
               /\ \A i \in pre.size_..(vec.size_ - 1) : vec.data_[i] = new
          ELSE /\ vec.size_ = c
               /\ \A i \in 0..(c - 1) : vec.data_[i] = pre.data_[i]

\* reached: resize(count, value) with count above the capacity on a vector
\* that held elements and had room
C6_Witness ==
  /\ which = "vector" /\ Returned({"resize_val"})
  /\ last.count > N /\ last.pre.size_ > 0 /\ last.pre.size_ < N
  /\ last.val # 0 /\ vec.size_ = N

\* C7: deque::resize with count <= max_size().  Shrinking keeps the logical
\* elements [0, count); growing keeps the old elements and appends 0 for
\* resize(count), value for resize(count, value); size() == count and head is
\* unchanged in both cases.
C7_DequeResize ==
  (which = "deque" /\ Returned({"resize", "resize_val"}) /\ last.count <= N)
    => LET pre == last.pre
           c   == last.count
           new == IF last.op = "resize" THEN 0 ELSE last.val
       IN /\ c < pre.size_ =>
               /\ deq.size_ = c
               /\ deque_seq(deq) = SubSeq(deque_seq(pre), 1, c)
               /\ deq.head_ = pre.head_
          /\ c > pre.size_ =>
               /\ deq.size_ = c
               /\ SubSeq(deque_seq(deq), 1, pre.size_) = deque_seq(pre)
               /\ \A i \in (pre.size_ + 1)..c : deque_seq(deq)[i] = new
               /\ deq.head_ = pre.head_

\* reached: a growing resize(count, value) whose appended elements wrap past
\* the physical end of the buffer
C7_Witness ==
  /\ which = "deque" /\ Returned({"resize_val"}) /\ last.count <= N
  /\ last.pre.size_ > 0 /\ last.count > last.pre.size_
  /\ last.pre.head_ # 0 /\ last.pre.head_ + last.count > N
  /\ last.val # 0 /\ deq.size_ = last.count

\* C8: push_back on a full vector or deque and push_front on a full deque
\* are no-ops: size, head, tail and every element are unchanged.
C8_PushFullNoop ==
  /\ (Returned({"push_back"}) /\ last.pre.size_ = last.pre.capacity_)
       => Cur = last.pre
  /\ (which = "deque" /\ Returned({"push_front"})
        /\ last.pre.size_ = last.pre.capacity_)
       => (deq = last.pre /\ deque_seq(deq) = deque_seq(last.pre))

\* reached: push_front of a new value on a full deque whose window wraps
C8_Witness ==
  /\ which = "deque" /\ Returned({"push_front"})
  /\ last.pre.size_ = N /\ last.pre.head_ # 0
  /\ last.val # deque_seq(last.pre)[1] /\ deq.size_ = N

\* C9: insert(pos, val), insert(pos, count, val) and insert(pos, first, last)
\* on a full vector or deque leave size and all elements unchanged and
\* return an iterator equal to pos.
C9_InsertFullNoop ==
  (Returned({"insert", "insert_n", "insert_range"})
     /\ last.pre.size_ = last.pre.capacity_)
    => (Cur = last.pre /\ CurSeq = PreSeq /\ last.ret = last.d)

\* reached: each of the three inserts on a full container, with something
\* to insert
C9_Witness ==
  /\ which \in {"vector", "deque"}
  /\ pc = "ret" /\ last.pre.size_ = N /\ Cur.size_ = N /\ last.d < N
  /\ \/ last.op = "insert" /\ last.val # PreSeq[last.d + 1]
     \/ last.op = "insert_n" /\ last.count > 0
     \/ last.op = "insert_range" /\ Len(last.src) > 0

\* C10: insert(pos, val) with size() < max_size() and pos at logical offset
\* d: the new sequence is old[0..d), val, old[d..size), size grows by one
\* and the returned iterator denotes offset d.
C10_InsertOne ==
  (Returned({"insert"}) /\ last.pre.size_ < last.pre.capacity_)
    => /\ CurSeq = SubSeq(PreSeq, 1, last.d) \o <<last.val>>
                     \o SubSeq(PreSeq, last.d + 1, last.pre.size_)
       /\ Cur.size_ = last.pre.size_ + 1
       /\ last.ret = last.d

\* reached: an insert in the middle of a deque whose window wraps
C10_Witness ==
  /\ which = "deque" /\ Returned({"insert"})
  /\ last.pre.size_ < N /\ last.d > 0 /\ last.d < last.pre.size_
  /\ last.pre.head_ + last.pre.size_ > N
  /\ deq.size_ = last.pre.size_ + 1

\* n copies of val
Copies(n, val) == [i \in 1..n |-> val]

\* C11: insert(pos, count, val) with k = max_size() - size() free slots
\* inserts exactly min(count, k) copies of val at pos: the new sequence is
\* old[0..d), the copies, old[d..size); when count > k the container ends
\* full, and every slot of the live range holds a constructed element.
C11_InsertCount ==
  Returned({"insert_n"})
    => LET pre == last.pre
           k   == pre.capacity_ - pre.size_
           m   == min(last.count, k)
       IN /\ CurSeq = SubSeq(PreSeq, 1, last.d) \o Copies(m, last.val)
                        \o SubSeq(PreSeq, last.d + 1, pre.size_)
          /\ Cur.size_ = pre.size_ + m
          /\ last.count > k => Cur.size_ = Cur.capacity_
          /\ \A i \in 1..Cur.size_ : CurSeq[i] # Raw

\* reached: a count insert in the middle of a wrapped deque that asked for
\* more copies than there were free slots, at least two of them
C11_Witness ==
  /\ which = "deque" /\ Returned({"insert_n"})
  /\ last.pre.capacity_ - last.pre.size_ >= 2
  /\ last.count > last.pre.capacity_ - last.pre.size_
  /\ last.d < last.pre.size_ /\ last.pre.head_ # 0
  /\ deq.size_ = N

\* C12: insert(pos, first, last) with a source range outside the container
\* inserts at offset d the first m = min(distance(first, last), max_size() -
\* size()) source elements in source order: old[0..d), src[0..m),
\* old[d..size); size grows by exactly m.
C12_InsertRange ==
  Returned({"insert_range"})
    => LET pre == last.pre
           m   == min(Len(last.src), pre.capacity_ - pre.size_)
       IN /\ CurSeq = SubSeq(PreSeq, 1, last.d) \o SubSeq(last.src, 1, m)
                        \o SubSeq(PreSeq, last.d + 1, pre.size_)
          /\ Cur.size_ = pre.size_ + m

\* reached: a range of two different values inserted whole before the last
\* element of a vector
C12_Witness ==
  /\ which = "vector" /\ Returned({"insert_range"})
  /\ Len(last.src) = 2 /\ last.src[1] # last.src[2]
  /\ last.pre.size_ > 0 /\ last.d < last.pre.size_
  /\ vec.size_ = last.pre.size_ + 2

\* C13: erase(pos) with pos at offset d in [0, size()) removes exactly that
\* element: old[0..d), old[d+1..size); size shrinks by one; the returned
\* iterator denotes offset d, which is end() when the last element went.
C13_EraseOne ==
  Returned({"erase"})
    => LET pre == last.pre IN
       /\ CurSeq = SubSeq(PreSeq, 1, last.d)
                     \o SubSeq(PreSeq, last.d + 2, pre.size_)
       /\ Cur.size_ = pre.size_ - 1
       /\ last.ret = last.d
       /\ last.d = pre.size_ - 1 => last.ret = Cur.size_

\* reached: the first of three different-ended elements erased from a vector
C13_Witness ==
  /\ which = "vector" /\ Returned({"erase"})
  /\ last.pre.size_ >= 2 /\ last.d = 0
  /\ PreSeq[1] # PreSeq[last.pre.size_]
  /\ vec.size_ = last.pre.size_ - 1

\* C14: erase(first, last) at offsets 0 <= i <= j <= size() yields
\* old[0..i), old[j..size), size() == old size - (j - i) and returns the
\* iterator at offset i; with i == j the container is unchanged.
C14_EraseRange ==
  Returned({"erase_range"})
    => LET pre == last.pre
           i   == last.d
           j   == last.e
       IN /\ CurSeq = SubSeq(PreSeq, 1, i) \o SubSeq(PreSeq, j + 1, pre.size_)
          /\ Cur.size_ = pre.size_ - (j - i)
          /\ last.ret = i
          /\ i = j => Cur = pre

\* reached: an inner range erased from a wrapped deque, elements left on
\* both sides of it
C14_Witness ==
  /\ which = "deque" /\ Returned({"erase_range"})
  /\ 0 < last.d /\ last.d < last.e /\ last.e < last.pre.size_
  /\ last.pre.head_ + last.pre.size_ > N
  /\ deq.size_ = last.pre.size_ - (last.e - last.d)

\* C15: with size() < max_size() and any pos in [begin(), end()],
\* erase(insert(pos, v)) restores the original logical sequence: same size,
\* same elements, same order, for every head of a deque.
C15_EraseInsertRestores ==
  (Returned({"erase_insert"}) /\ last.pre.size_ < last.pre.capacity_)
    => (Cur.size_ = last.pre.size_ /\ CurSeq = PreSeq)

\* reached: a new value inserted in the middle of a wrapped deque and erased
C15_Witness ==
  /\ which = "deque" /\ Returned({"erase_insert"})
  /\ last.pre.size_ < N /\ 0 < last.d /\ last.d < last.pre.size_
  /\ last.pre.head_ + last.pre.size_ > N
  /\ last.val # PreSeq[last.d + 1] /\ last.val # PreSeq[last.pre.size_]
  /\ deq.size_ = last.pre.size_

\* the bounded sequence of capacity c a deque stands for, and its four
\* operations: a push on a full one and a pop on an empty one do nothing
abs_push_back(q, v, c) == IF Len(q) < c THEN Append(q, v) ELSE q
abs_push_front(q, v, c) == IF Len(q) < c THEN <<v>> \o q ELSE q
abs_pop_back(q) == IF Len(q) > 0 THEN SubSeq(q, 1, Len(q) - 1) ELSE q
abs_pop_front(q) == IF Len(q) > 0 THEN Tail(q) ELSE q

\* C16: every push_back, push_front, pop_back and pop_front on a deque of
\* capacity N takes the logical content read through operator[] to the
\* content the same operation gives on the abstract bounded sequence, so
\* the two agree after any interleaving: elements pushed at the back leave
\* at the front in FIFO order across the physical wraparound.
C16_DequeRefinesSequence ==
  /\ Returned({"push_back"}) /\ which = "deque"
       => deque_seq(deq) = abs_push_back(deque_seq(last.pre), last.val, N)
  /\ Returned({"push_front"})
       => deque_seq(deq) = abs_push_front(deque_seq(last.pre), last.val, N)
  /\ Returned({"pop_back"}) /\ which = "deque"
       => deque_seq(deq) = abs_pop_back(deque_seq(last.pre))
  /\ Returned({"pop_front"})
       => deque_seq(deq) = abs_pop_front(deque_seq(last.pre))

\* reached: capacity 3, two elements left after a pop_front, and a
\* push_back that wraps the tail to slot 0 and fills the deque
C16_Witness ==
  /\ which = "deque" /\ Returned({"push_back"}) /\ N = 3
  /\ last.pre.head_ = 1 /\ last.pre.size_ = 2 /\ last.pre.tail_ = 2
  /\ deq.tail_ = 0 /\ deq.size_ = 3
  /\ deque_seq(deq)[3] = last.val /\ last.val # deque_seq(deq)[1]

\* the slots of a container that hold a constructed object
Constructed(c) == {i \in DOMAIN c.data_ : c.data_[i] # Raw}
\* the live range: physical offsets [0, size) of a vector, the size slots
\* head, head + 1, ... modulo capacity of a deque
VectorLive(v) == {i \in 0..(v.capacity_ - 1) : i < v.size_}
DequeLive(d) == {(d.head_ + i) % d.capacity_ : i \in 0..(d.size_ - 1)}

\* C17: in every reachable state of a container whose lifetime has not
\* ended, the slots holding a constructed object are exactly the live range;
\* no operation has placement-constructed into a live slot and none has
\* destroyed a slot that was not live.
C17_ConstructedIsLive ==
  /\ pc # "dead" =>
       /\ Constructed(vec) = VectorLive(vec)
       /\ Constructed(deq) = DequeLive(deq)
       /\ Cardinality(DequeLive(deq)) = deq.size_
  /\ ~vec.lifetime_error /\ ~deq.lifetime_error

\* reached: a deque whose live window wraps past the end of the buffer,
\* with a raw slot between its tail and its head
C17_Witness ==
  /\ which = "deque" /\ pc = "idle" /\ N = 3
  /\ deq.head_ = 2 /\ deq.size_ = 2 /\ deq.tail_ = 0
  /\ deq.data_[1] = Raw /\ deq.data_[0] # Raw /\ deq.data_[2] # Raw

\* the slots whose object was destroyed by the last call
Destroyed == {i \in DOMAIN Cur.data_ : last.pre.data_[i] # Raw /\ Cur.data_[i] = Raw}
\* the live range of the container before the last call
PreLive == IF which = "vector" THEN VectorLive(last.pre) ELSE DequeLive(last.pre)

\* C18: the destructor of a vector and of a deque destroys each live element
\* exactly once and touches no other slot: afterwards no slot holds an
\* object, the slots destroyed are the size() slots of the live range, none
\* was destroyed twice and no raw slot was destroyed; size_, head_, tail_
\* are left as they were.
C18_DtorDestroysLive ==
  (pc = "dead" /\ last.op = "dtor") =>
    /\ Constructed(Cur) = {}
    /\ Destroyed = PreLive
    /\ Cardinality(Destroyed) = last.pre.size_
    /\ ~Cur.lifetime_error
    /\ Cur = [last.pre EXCEPT !.data_ = [i \in DOMAIN last.pre.data_ |-> Raw]]

\* reached: a deque destroyed while its live window wraps past the end of
\* the buffer and one slot is raw
C18_Witness ==
  /\ pc = "dead" /\ last.op = "dtor" /\ which = "deque" /\ N = 3
  /\ last.pre.head_ = 2 /\ last.pre.size_ = 2
  /\ last.pre.data_[1] = Raw /\ deq.data_[0] = Raw /\ deq.data_[2] = Raw

\* C19: at(pos) denotes the element operator[](pos mod max_size()) denotes,
\* on a vector and on a deque and for every pos; in a deque that is the slot
\* (head + pos mod N) mod N; on a full container at(max_size()) is the first
\* element, whatever the head.
C19_AtWraps ==
  Returned({"at"}) =>
    /\ which = "vector" =>
         /\ last.ret = vector_subscript(last.pre, last.d % N)
         /\ last.ret = last.d % N
    /\ which = "deque" =>
         /\ last.ret = deque_subscript(last.pre, last.d % N)
         /\ last.ret = (last.pre.head_ + (last.d % N)) % N
    /\ (last.d = N /\ last.pre.size_ = N) => Cur.data_[last.ret] = CurSeq[1]
    /\ Cur = last.pre

\* reached: at(max_size()) on a full deque whose head is not slot 0 and whose
\* first element differs from the element in slot 0
C19_Witness ==
  /\ which = "deque" /\ Returned({"at"}) /\ N = 3
  /\ last.d = N /\ deq.size_ = N /\ deq.head_ = 2
  /\ last.ret = 2 /\ deq.data_[2] # deq.data_[0]

\* C20: on a non-empty vector or deque, at(pos) returns a constructed
\* element of the container for every pos, never an unconstructed slot.
C20_AtReturnsElement ==
  (Returned({"at"}) /\ last.pre.size_ > 0) =>
    /\ Cur.data_[last.ret] # Raw
    /\ last.ret \in PreLive

\* C21: a vector or deque constructed from a range holds, read begin() to
\* end(), the first min(distance(first,last), N) source elements in source
\* order; constructed from (count, val) it holds min(count, N) copies of
\* val; size() is that number.
C21_Constructed ==
  /\ Returned({"ctor_range"}) =>
       /\ Cur.size_ = min(Len(last.src), N)
       /\ CurSeq = SubSeq(last.src, 1, min(Len(last.src), N))
  /\ Returned({"ctor_fill"}) =>
       /\ Cur.size_ = min(last.count, N)
       /\ CurSeq = Copies(min(last.count, N), last.val)

\* reached: a vector of capacity 1 constructed from a range of two distinct
\* elements
C21_Witness ==
  /\ which = "vector" /\ Returned({"ctor_range"}) /\ N = 1
  /\ Len(last.src) = 2 /\ last.src[1] # last.src[2] /\ vec.size_ = 1

\* the element at logical offset i of a deque: slot (head + i) mod capacity
DequeElem(d, i) == d.data_[(d.head_ + i) % d.capacity_]

\* C22: after copy construction from, or assignment of, a deque of the same
\* or another capacity in any of its states, the destination has
\* size() = min(source.size(), N) and destination[i] = source[i] for every i
\* below that size; assigning a deque to itself leaves it unchanged.
C22_DequeCopied ==
  (which = "deque" /\ Returned({"ctor_copy", "ctor_convert", "copy_assign"})) =>
    /\ deq.size_ = min(last.other.size_, N)
    /\ \A i \in 0..(deq.size_ - 1) : DequeElem(deq, i) = DequeElem(last.other, i)
    /\ deq.capacity_ = N
    /\ last.other = last.pre => deq = last.pre

\* reached: a full deque of capacity 3 assigned from a deque of capacity 2
\* whose two elements wrap around the end of its buffer
C22_Witness ==
  /\ which = "deque" /\ Returned({"copy_assign"}) /\ N = 3
  /\ last.pre.size_ = 3 /\ last.other.capacity_ = 2 /\ last.other.head_ = 1
  /\ last.other.size_ = 2 /\ last.other.data_[0] # last.other.data_[1]
  /\ deq.size_ = 2

\* C23: rotate over the n elements a of [first, last), split at offset k,
\* leaves a[k..n) followed by a[0..k) in the range and nothing else changed,
\* for every 0 <= k <= n; it returns first + (n - k), which is last when
\* k = 0 and first when k = n, the range being untouched in both cases.
C23_Rotate ==
  Returned({"rotate"}) =>
    LET lo == last.d
        hi == last.e
        n  == hi - lo
        k  == last.count
        a  == SubSeq(PreSeq, lo + 1, hi)
    IN /\ SubSeq(CurSeq, lo + 1, hi) = SubSeq(a, k + 1, n) \o SubSeq(a, 1, k)
       /\ SubSeq(CurSeq, 1, lo) = SubSeq(PreSeq, 1, lo)
       /\ SubSeq(CurSeq, hi + 1, Len(CurSeq)) = SubSeq(PreSeq, hi + 1, Len(PreSeq))
       /\ vec.size_ = last.pre.size_
       /\ last.ret = lo + (n - k)
       /\ k = 0 => (last.ret = hi /\ vec = last.pre)
       /\ k = n => (last.ret = lo /\ vec = last.pre)

\* reached: three distinct elements rotated at offset 1
C23_Witness ==
  /\ Returned({"rotate"}) /\ last.d = 0 /\ last.e = 3 /\ last.count = 1
  /\ PreSeq = <<0, 1, 2>> /\ CurSeq = <<1, 2, 0>> /\ last.ret = 2

\* C24: rotate at offset k followed by rotate of the same range at offset
\* n - k restores the original element order, for every n and 0 <= k <= n.
C24_RotateTwiceRestores ==
  Returned({"rotate_rotate"}) => vec = last.pre

\* reached: the two rotations applied to three distinct elements, split 1
C24_Witness ==
  /\ Returned({"rotate_rotate"}) /\ last.d = 0 /\ last.e = 3 /\ last.count = 1
  /\ PreSeq = <<0, 1, 2>>

\* C25: rotate over the reversed range of [P, end) with the split c
\* positions after rbegin is a right rotation by c of [P, end): its last c
\* elements come first, the others follow in their order, and the elements
\* before P are untouched.
C25_RotateRight ==
  Returned({"rrotate"}) =>
    LET p == last.d
        c == last.count
        n == Len(PreSeq)
    IN /\ CurSeq = SubSeq(PreSeq, 1, p) \o SubSeq(PreSeq, n - c + 1, n)
                     \o SubSeq(PreSeq, p + 1, n - c)
       /\ Cur.size_ = last.pre.size_

\* reached: a deque whose window wraps, right-rotated by 1 from offset 1
C25_Witness ==
  /\ which = "deque" /\ Returned({"rrotate"}) /\ N = 3
  /\ last.pre.head_ = 2 /\ last.d = 1 /\ last.count = 1
  /\ PreSeq = <<0, 1, 2>> /\ CurSeq = <<0, 2, 1>>

\* x orders before y: x is a proper prefix of y, or at the first offset
\* where they differ x has the smaller element
LexLess(x, y) ==
  \/ Len(x) < Len(y) /\ \A i \in 1..Len(x) : x[i] = y[i]
  \/ \E i \in 1..min(Len(x), Len(y)) :
       x[i] < y[i] /\ \A j \in 1..(i - 1) : x[j] = y[j]

\* the two ranges of the last lexicographical_compare call, in call order
LexArgs ==
  LET a == SubSeq(PreSeq, last.d + 1, last.e) IN
  IF last.count = 0 THEN <<a, last.src>> ELSE <<last.src, a>>

\* C26: lexicographical_compare(a, b) is true exactly when a is a proper
\* prefix of b or a has the smaller element at the first offset where they
\* differ; it is false for equal ranges (two empty ranges included) and
\* true for an empty range against a non-empty one.
C26_LexCompare ==
  Returned({"lexicographical_compare"}) =>
    LET x == LexArgs[1]
        y == LexArgs[2]
    IN /\ last.ret = LexLess(x, y)
       /\ x = y => last.ret = FALSE
       /\ (x = <<>> /\ y # <<>>) => last.ret = TRUE
       /\ (y = <<>>) => last.ret = FALSE

\* reached: a range of one element compared with a range of two that it is
\* a proper prefix of
C26_Witness ==
  /\ Returned({"lexicographical_compare"}) /\ last.count = 0
  /\ Len(LexArgs[1]) = 1 /\ Len(last.src) = 2
  /\ LexArgs[1][1] = last.src[1] /\ last.ret = TRUE

\* the logical content of a container of either kind, by slot arithmetic
Content(c) ==
  IF which = "vector" THEN [i \in 1..c.size_ |-> c.data_[i - 1]]
  ELSE [i \in 1..c.size_ |-> DequeElem(c, i - 1)]

\* C27: for two vectors or two deques a and b of any capacities, a == b iff
\* they have the same size and equal elements at every offset, a < b iff
\* the content of a is lexicographically smaller, and !=, >, <=, >= are
\* !(a == b), b < a, !(b < a), !(a < b); only the logical content counts.
C27_Relational ==
  Returned({"compare"}) =>
    LET a == Content(last.pre)
        b == Content(last.other)
        r == last.ret
    IN /\ r.eq = (Len(a) = Len(b) /\ \A i \in 1..Len(a) : a[i] = b[i])
       /\ r.lt = LexLess(a, b)
       /\ r.ne = ~r.eq
       /\ r.gt = LexLess(b, a)
       /\ r.le = ~LexLess(b, a)
       /\ r.ge = ~LexLess(a, b)

\* reached: two deques of different capacity and different head holding
\* the same two elements compare equal
C27_Witness ==
  /\ which = "deque" /\ Returned({"compare"}) /\ N = 3
  /\ last.other.capacity_ = 2 /\ last.other.head_ = 1 /\ last.pre.head_ = 2
  /\ last.pre.size_ = 2 /\ Content(last.pre) = <<0, 1>>
  /\ last.ret.eq /\ ~last.ret.lt /\ last.ret.le

\* C28: on a non-empty vector or deque, front() denotes the element
\* operator[](0) denotes, the first of the content, and back() the element
\* operator[](size() - 1) denotes, the last of the content.
C28_FrontBack ==
  Returned({"front_back"}) =>
    LET sub(pos) == IF which = "vector" THEN vector_subscript(last.pre, pos)
                    ELSE deque_subscript(last.pre, pos)
    IN /\ last.ret.front = sub(0)
       /\ last.ret.back = sub(last.pre.size_ - 1)
       /\ Cur.data_[last.ret.front] = Content(Cur)[1]
       /\ Cur.data_[last.ret.back] = Content(Cur)[Cur.size_]

\* reached: front() and back() of a deque whose two elements differ and wrap
\* around the end of the buffer
C28_Witness ==
  /\ which = "deque" /\ Returned({"front_back"}) /\ N = 3
  /\ deq.head_ = 2 /\ deq.size_ = 2 /\ last.ret.front = 2 /\ last.ret.back = 0
  /\ deq.data_[2] # deq.data_[0]

\* C29: walking a reverse iterator from reverse(end) to reverse(begin) with
\* pre-increment visits the positions size-1, ..., 0 in this order, each
\* once, so the elements last to first; reverse(P) dereferences to the
\* element just before P and reverse(P).base() = P; the distance from
\* reverse(end) to reverse(begin) is distance(begin, end).
C29_ReverseIterator ==
  /\ Returned({"reverse_walk"}) =>
       LET n == last.pre.size_ IN
       /\ last.src = [i \in 1..n |-> n - i]
       /\ [i \in 1..n |-> PreSeq[last.src[i] + 1]] = [i \in 1..n |-> PreSeq[n + 1 - i]]
       /\ last.ret = distance(0, n)
       /\ last.ret = n
  /\ Returned({"reverse_iterator"}) =>
       /\ last.ret.base = last.d
       /\ last.d > 0 => last.ret.deref = last.d - 1

\* reached: the reverse walk over three elements
C29_Witness ==
  /\ Returned({"reverse_walk"}) /\ last.pre.size_ = 3
  /\ last.src = <<2, 1, 0>> /\ last.ret = 3 /\ PreSeq[1] # PreSeq[3]

\* C30: an optional holds a constructed value iff has_value() (valid_) is
\* true, in every state until its destructor; no call constructs the
\* contained object while one exists or destroys it while none exists;
\* construction from, or assignment of, a value or an engaged optional
\* leaves it engaged with that value; construction from, or assignment of,
\* nullopt or a disengaged optional, and reset(), leave it disengaged;
\* assignment to itself changes nothing; value_or(d) returns the value
\* when engaged and d otherwise.
C30_OptionalEngaged ==
  /\ pc # "dead" => (opt.valid_ <=> opt.buffer_ # Raw)
  /\ ~opt.lifetime_error
  /\ Returned({"opt_assign_value", "opt_ctor_value"}) =>
       (opt.valid_ /\ opt.buffer_ = last.val)
  /\ Returned({"opt_assign", "opt_ctor_copy"}) =>
       /\ last.other.valid_ => (opt.valid_ /\ opt.buffer_ = last.other.buffer_)
       /\ ~last.other.valid_ => ~opt.valid_
       /\ last.ret = 1 => opt = last.pre
  /\ Returned({"opt_assign_nullopt", "opt_reset", "opt_ctor"}) => ~opt.valid_
  /\ Returned({"opt_value_or"}) =>
       /\ last.ret = IF last.pre.valid_ THEN last.pre.buffer_ ELSE last.val
       /\ opt = last.pre
  /\ (pc = "dead" /\ last.op = "opt_dtor") => opt.buffer_ = Raw

\* reached: reset() of an engaged optional
C30_Witness ==
  /\ which = "optional" /\ Returned({"opt_reset"})
  /\ last.pre.valid_ /\ last.pre.buffer_ = 2
  /\ ~opt.valid_ /\ opt.buffer_ = Raw

\* C31: two optionals compare in a total order in which a disengaged
\* optional equals only a disengaged one and is less than every engaged one:
\* exactly one of a < b, a == b, a > b holds, a <= b iff not a > b, a >= b
\* iff not a < b, two engaged optionals compare as their values do, and
\* nullopt on either side compares as a disengaged optional does
C31_OptionalOrder ==
  /\ Returned({"opt_compare"}) =>
       LET a == last.pre
           b == last.other
           r == last.ret IN
       /\ \/ r.lt /\ ~r.eq /\ ~r.gt
          \/ ~r.lt /\ r.eq /\ ~r.gt
          \/ ~r.lt /\ ~r.eq /\ r.gt
       /\ r.le <=> ~r.gt
       /\ r.ge <=> ~r.lt
       /\ ~a.valid_ => (r.eq <=> ~b.valid_) /\ (r.lt <=> b.valid_)
       /\ ~b.valid_ => (r.eq <=> ~a.valid_) /\ (r.gt <=> a.valid_)
       /\ a.valid_ /\ b.valid_ =>
            /\ r.lt <=> a.buffer_ < b.buffer_
            /\ r.eq <=> a.buffer_ = b.buffer_
  /\ Returned({"opt_compare_nullopt"}) =>
       /\ last.ret.right = optional_relops(last.pre, optional_new)
       /\ last.ret.left = optional_relops(optional_new, last.pre)

\* two disengaged optionals have been compared, and an engaged one with
\* nullopt
C31_Witness ==
  \/ /\ pc = "ret" /\ last.op = "opt_compare"
     /\ ~last.pre.valid_ /\ ~last.other.valid_ /\ last.ret.eq
  \/ /\ pc = "ret" /\ last.op = "opt_compare_nullopt"
     /\ last.pre.valid_ /\ last.ret.right.gt

\* the alternative and value stored by the call that has returned
Stored ==
  IF last.op \in {"var_assign_value", "var_ctor_value"}
  THEN [alt |-> last.d, val |-> last.val]
  ELSE last.other.buffer_

\* C32: after a value or copy assignment to a variant, whatever was done
\* to it before, index() is the position of the type of the value stored,
\* get_if is non-null and holds_alternative is true for exactly that
\* alternative, the value held is the value assigned, exactly one
\* alternative is alive, and the buffer saw one destructor call followed by
\* one constructor call when the alternative changed, one assignment when
\* it did not (nothing on self-assignment)
C32_VariantHolds ==
  Returned({"var_assign_value", "var_assign"}) =>
    /\ last.ret.index = Stored.alt
    /\ \A I \in Alts :
         /\ ~last.ret.get_if[I].null <=> I = Stored.alt
         /\ last.ret.holds[I] <=> I = Stored.alt
    /\ last.ret.get_if[Stored.alt].obj = Stored
    /\ var.type_ = Stored.alt /\ var.buffer_ = Stored
    /\ ~var.lifetime_error
    /\ var.events = IF last.e = 1 THEN <<>>
                    ELSE IF last.pre.type_ # Stored.alt
                    THEN <<"destroy", "construct">>
                    ELSE <<"assign">>

\* a value of another alternative has been assigned to a variant, and a
\* variant holding the same alternative has been copy-assigned to one
C32_Witness ==
  /\ pc = "ret" /\ last.op = "var_assign_value"
  /\ last.pre.type_ = 0 /\ last.d = MaxAlt /\ last.val = 1
  /\ var.buffer_ = [alt |-> MaxAlt, val |-> 1]

\* x is before y in the order by index, then by value
VariantLess(x, y) ==
  \/ x.type_ < y.type_
  \/ x.type_ = y.type_ /\ x.buffer_.val < y.buffer_.val

\* C33: two variants of the same type are ordered by index() and then by
\* the value held: a < b iff a's index is smaller, or the indices are equal
\* and a's value is less; a == b iff same index and equal values; a > b is
\* b < a, a <= b is not b < a, a >= b is not a < b
C33_VariantOrder ==
  Returned({"var_compare"}) =>
    LET a == last.pre
        b == last.other
        r == last.ret IN
    /\ r.lt <=> VariantLess(a, b)
    /\ r.eq <=> (a.type_ = b.type_ /\ a.buffer_.val = b.buffer_.val)
    /\ r.ne <=> ~r.eq
    /\ r.gt <=> VariantLess(b, a)
    /\ r.le <=> ~VariantLess(b, a)
    /\ r.ge <=> ~VariantLess(a, b)

\* a variant holding a later alternative with a smaller value has been
\* compared with one holding an earlier alternative
C33_Witness ==
  /\ pc = "ret" /\ last.op = "var_compare"
  /\ last.pre.type_ > last.other.type_
  /\ last.pre.buffer_.val < last.other.buffer_.val
  /\ last.ret.gt /\ ~last.ret.lt

\* C34: in every state of a deque of capacity N, after any constructor,
\* copy, assignment, push, pop, insert, erase, resize or clear and also in
\* the middle of a resize, head_ < N, tail_ < N and
\* tail_ = (head_ + size_ - 1) mod N, so that size_, head_ and capacity_
\* determine the state
C34_DequeIndices ==
  which = "deque" =>
    /\ deq.capacity_ = N
    /\ deq.head_ \in 0..(N - 1)
    /\ deq.tail_ \in 0..(N - 1)
    /\ deq.tail_ = (deq.head_ + deq.size_ + N - 1) % N

\* a deque whose only element was in the last slot has become empty by
\* pop_front: head_ has wrapped to slot 0 and tail_ is the last slot
C34_Witness ==
  /\ which = "deque" /\ pc = "ret" /\ last.op = "pop_front"
  /\ last.pre.size_ = 1 /\ last.pre.head_ = N - 1 /\ N > 1
  /\ deq.size_ = 0 /\ deq.head_ = 0 /\ deq.tail_ = N - 1

\* the vector<int,n> whose elements are q
VectorOf(q, n) ==
  [size_ |-> Len(q), capacity_ |-> n, lifetime_error |-> FALSE,
   data_ |-> [i \in 0..(n - 1) |-> IF i < Len(q) THEN q[i + 1] ELSE Raw]]

\* the vector after the call that the deque has returned from
VectorAfter(v) ==
  CASE last.op = "push_back" -> vector_push_back(v, last.val)
    [] last.op = "pop_back" -> vector_pop_back(v)
    [] last.op = "insert" -> vector_insert(v, last.d, last.val)
    [] last.op = "insert_n" -> vector_insert_n(v, last.d, last.count, last.val)
    [] last.op = "insert_range" -> vector_insert_range(v, last.d, last.src)
    [] last.op = "erase" -> vector_erase(v, last.d)
    [] last.op = "erase_range" -> vector_erase_range(v, last.d, last.e)
    [] last.op = "resize" -> vector_resize(v, last.count, 0)
    [] last.op = "resize_val" -> vector_resize(v, last.count, last.val)
    [] last.op = "clear" -> vector_clear(v)

\* C35: a deque, whatever its head, and the vector of the same capacity
\* with the same elements have the same size and the same elements after
\* the same push_back, pop_back on a non-empty container, insert of one
\* value, of count values or of a range, erase of one element or of a range,
\* resize within capacity or clear
C35_DequeAsVector ==
  ( /\ which = "deque"
    /\ Returned({"push_back", "pop_back", "insert", "insert_n",
                 "insert_range", "erase", "erase_range", "resize",
                 "resize_val", "clear"})
    /\ last.op = "pop_back" => last.pre.size_ > 0
    /\ last.op \in {"resize", "resize_val"} => last.count <= N )
  => LET w == VectorAfter(VectorOf(PreSeq, N)) IN
     /\ w.size_ = deq.size_
     /\ vector_seq(w) = deque_seq(deq)

\* a value has been inserted in the middle of a deque whose elements wrap
\* around the end of the storage
C35_Witness ==
  /\ which = "deque" /\ pc = "ret" /\ last.op = "insert"
  /\ last.pre.size_ = 2 /\ last.pre.head_ = N - 1 /\ N = 3 /\ last.d = 1
  /\ deque_seq(deq) = <<PreSeq[1], last.val, PreSeq[2]>>
  /\ PreSeq[1] # last.val /\ PreSeq[2] # last.val

\* C36: insert(pos, x) and insert(pos, count, x), x a reference to an
\* element of the container itself, insert copies of the value that element
\* had when the call began (last.val), as many as fit
C36_InsertOwnElement ==
  Returned({"insert_ref", "insert_n_ref"}) =>
    LET c == min(last.count, N - last.pre.size_) IN
    CurSeq = SubSeq(PreSeq, 1, last.d) \o Copies(c, last.val)
               \o SubSeq(PreSeq, last.d + 1, last.pre.size_)

\* the elements the call that has returned read or assigned, and the
\* container at the time it did
Touched ==
  LET p == last.pre IN
  IF which = "vector"
  THEN CASE last.op = "insert" -> vector_insert_touched(p, last.d, 1)
         [] last.op = "insert_n" -> vector_insert_touched(p, last.d, last.count)
         [] last.op = "insert_range" ->
              vector_insert_touched(p, last.d, Len(last.src))
         [] last.op = "erase" -> vector_erase_touched(p, last.d, last.d + 1)
         [] last.op = "erase_range" -> vector_erase_touched(p, last.d, last.e)
         [] last.op = "assign" -> vector_assign_touched(p, last.count)
         [] last.op = "assign_range" -> vector_assign_touched(p, Len(last.src))
  ELSE CASE last.op = "insert" -> deque_insert_touched(p, last.d, 1)
         [] last.op = "insert_n" -> deque_insert_touched(p, last.d, last.count)
         [] last.op = "insert_range" ->
              deque_insert_touched(p, last.d, Len(last.src))
         [] last.op = "erase" -> deque_erase_touched(p, last.d, last.d + 1)
         [] last.op = "erase_range" -> deque_erase_touched(p, last.d, last.e)
         [] last.op \in {"assign", "assign_range"} -> deque_assign_touched(deq)

\* the slot of the element at offset p of container c
SlotOf(c, p) == IF which = "vector" THEN p ELSE index_at(c, p)

\* C37: an insert, erase or assign called with positions in
\* [begin(), end()] (erase: positions of elements) dereferences only
\* positions with an offset in [0, capacity), accesses only slots in
\* [0, capacity), and reads and assigns only slots that hold a constructed
\* element; no constructor runs on a live slot and no destructor on a raw
\* one
C37_AccessesConstructed ==
  Returned({"insert", "insert_n", "insert_range", "erase", "erase_range",
            "assign", "assign_range"}) =>
    /\ \A p \in Touched.pos :
         /\ p \in 0..(N - 1)
         /\ SlotOf(Touched.obj, p) \in 0..(N - 1)
         /\ Touched.obj.data_[SlotOf(Touched.obj, p)] # Raw
    /\ ~Cur.lifetime_error

\* an insert in the middle of a wrapped deque has rotated the slots on both
\* sides of the end of the storage, the last of which resize had just
\* constructed
C37_Witness ==
  /\ which = "deque" /\ pc = "ret" /\ last.op = "insert"
  /\ N = 3 /\ last.pre.head_ = 2 /\ last.pre.size_ = 2 /\ last.d = 0
  /\ Touched.pos = {0, 1, 2}
  /\ last.pre.data_[index_at(last.pre, 2)] = Raw
  /\ Touched.obj.data_[index_at(last.pre, 2)] # Raw

\* the slots of deque d other than slot s hold what they held before the call
OtherSlotsKept(d, s) ==
  \A i \in 0..(N - 1) : i # s => d.data_[i] = last.pre.data_[i]

\* C38: on a deque that is not full, push_back changes only tail_ (one
\* further, wrapping), size_ (+1) and the slot at the new tail_, and
\* push_front only head_ (one back, wrapping), size_ and the slot at the
\* new head_; on a non-empty deque pop_back changes only tail_, size_ and
\* the slot of the element removed, and pop_front only head_, size_ and
\* that slot: every other element stays in its slot
C38_PushPopFrame ==
  (which = "deque" /\ pc = "ret") =>
    LET p == last.pre IN
    /\ (last.op = "push_back" /\ p.size_ < N) =>
         /\ deq.tail_ = (p.tail_ + 1) % N
         /\ deq.head_ = p.head_
         /\ deq.size_ = p.size_ + 1
         /\ deq.data_[deq.tail_] = last.val
         /\ OtherSlotsKept(deq, deq.tail_)
    /\ (last.op = "push_front" /\ p.size_ < N) =>
         /\ deq.head_ = (p.head_ + N - 1) % N
         /\ deq.tail_ = p.tail_
         /\ deq.size_ = p.size_ + 1
         /\ deq.data_[deq.head_] = last.val
         /\ OtherSlotsKept(deq, deq.head_)
    /\ (last.op = "pop_back" /\ p.size_ > 0) =>
         /\ deq.tail_ = (p.tail_ + N - 1) % N
         /\ deq.head_ = p.head_
         /\ deq.size_ = p.size_ - 1
         /\ OtherSlotsKept(deq, p.tail_)
    /\ (last.op = "pop_front" /\ p.size_ > 0) =>
         /\ deq.head_ = (p.head_ + 1) % N
         /\ deq.tail_ = p.tail_
         /\ deq.size_ = p.size_ - 1
         /\ OtherSlotsKept(deq, p.head_)

\* push_front on a deque with head_ = 0 and an element in slot 0 has
\* wrapped head_ to the last slot and left that element where it was
C38_Witness ==
  /\ which = "deque" /\ pc = "ret" /\ last.op = "push_front"
  /\ N = 3 /\ last.pre.head_ = 0 /\ last.pre.size_ = 1
  /\ last.pre.data_[0] = 1 /\ last.val = 2
  /\ deq.head_ = 2 /\ deq.data_[2] = 2 /\ deq.data_[0] = 1

\* C39: r++ (r--) returns a reverse iterator equal to r before the call
\* and leaves r moved like ++r (--r); r += n (r -= n) leaves r equal to the
\* old r + n (r - n), whose base is the old base - n (+ n), and returns r
C39_PostfixCompound ==
  LET r == reverse_iterator(last.d) IN
  /\ Returned({"reverse_postinc"}) =>
       /\ last.ret.result = Expr("reverse_iterator", reverse_base(r))
       /\ last.ret.r = reverse_preinc(r)
  /\ Returned({"reverse_postdec"}) =>
       /\ last.ret.result = Expr("reverse_iterator", reverse_base(r))
       /\ last.ret.r = reverse_predec(r)
  /\ Returned({"reverse_add_assign"}) =>
       /\ last.ret.r = reverse_plus(r, last.count)
       /\ reverse_base(last.ret.r) = reverse_base(r) - last.count
       /\ last.ret.result = Expr("reverse_iterator", reverse_base(last.ret.r))
  /\ Returned({"reverse_sub_assign"}) =>
       /\ last.ret.r = reverse_minus(r, last.count)
       /\ reverse_base(last.ret.r) = reverse_base(r) + last.count
       /\ last.ret.result = Expr("reverse_iterator", reverse_base(last.ret.r))

\* C40: for a deque of any capacity N >= 1 with head_ in [0, N) and any pos
\* in [0, N), index_at(pos) is (head_ + pos) mod N, lies in [0, N) and no
\* subtraction it makes has a subtrahend above its minuend; increment_index
\* and decrement_index map pos into [0, N), to pos + 1 and pos - 1 modulo N
\* (N - 1 to 0, 0 to N - 1), and each undoes the other
C40_IndexArithmetic ==
  Returned({"index_at"}) =>
    LET h == last.pre.head_
        pos == last.d
        r == last.ret IN
    /\ h \in 0..(N - 1)
    /\ r.index = (h + pos) % N
    /\ r.index \in 0..(N - 1)
    /\ \A s \in r.subs : s[1] >= s[2]
    /\ r.inc \in 0..(N - 1) /\ r.inc = (pos + 1) % N
    /\ r.dec \in 0..(N - 1) /\ r.dec = (pos + N - 1) % N
    /\ pos = N - 1 => r.inc = 0
    /\ pos = 0 => r.dec = N - 1
    /\ r.incdec = pos /\ r.decinc = pos

\* index_at of the last logical offset of a deque whose head is in the last
\* slot has wrapped, by a subtraction, to the slot before the head
C40_Witness ==
  /\ which = "deque" /\ pc = "ret" /\ last.op = "index_at"
  /\ N = 3 /\ last.pre.head_ = 2 /\ last.d = 2
  /\ last.ret.index = 1 /\ <<2, 1>> \in last.ret.subs

====
